---- MODULE Spec2Model ----
(***************************************************************************)
(* Market-data acquisition and reconciliation engine of sweep-the-board   *)
(* (backend/services/market_data.py), its ranking consumer                *)
(* (backend/services/ranking.py, ranking_calculator.py) and the           *)
(* background update job table (backend/api/routes.py).                   *)
(*                                                                         *)
(* Conventions                                                             *)
(*  - a date is an integer day number, day 0 = BASELINE_DATE = 2026-01-05, *)
(*    a Monday, so the weekday of day d is d % 7 (0 = Monday);             *)
(*  - Python None is the integer None, smaller than every real value;      *)
(*  - floats are fixed-point hundredths (PE 20.0 is 2000); a * (b / c) is  *)
(*    MulDiv(a, b, c), rounded down to one hundredth;                      *)
(*  - a DataFrame is a sequence of rows, None or empty is << >>;           *)
(*  - a code string is a sequence of one-character strings.                *)
(***************************************************************************)
EXTENDS Integers, Sequences, FiniteSets, TLC

VARIABLES
    today,        \* get_beijing_time().date()
    prov,         \* what the external providers answer at the moment
    market_data,  \* rows of table market_data, in primary-key order
    baseline,     \* assets.baseline_price, per asset id
    last,         \* what the last handler did (history variable)
    fin,          \* fetch_asset_data under test: its inputs
    fout,         \* fetch_asset_data under test: its result and provider calls
    rankings,     \* rows of table rankings
    rk,           \* ranking run under test: inputs and result
    tasks,        \* routes.tasks: job table, per task id
    worker        \* run_update_task: position of each job's worker

vars == <<today, prov, market_data, baseline, last, fin, fout, rankings, rk, tasks, worker>>

None == 0 - 1000

\* ---------------------------------------------------------------- bounds
MaxDay == 8
MaxBatch == 2
MaxTasks == 2
MaxOps == 2

\* ------------------------------------------------------------- utilities
Truthy(x) == x # None /\ x # 0

MulDiv(a, b, c) == (a * b) \div c

Range(s) == {s[i] : i \in 1..Len(s)}

RECURSIVE SeqFilterIdx(_, _, _)
\* indices i >= from of s, ascending, as a sequence
SeqFilterIdx(s, keep, from) ==
    IF from > Len(s) THEN << >>
    ELSE IF from \in keep THEN <<from>> \o SeqFilterIdx(s, keep, from + 1)
    ELSE SeqFilterIdx(s, keep, from + 1)

\* -------------------------------------------------------------- calendar
BASELINE_DATE == 0

weekday(d) == d % 7

is_trading_day(target_date) ==
    IF weekday(target_date) >= 5 THEN FALSE ELSE TRUE

should_skip_api_request(target_date) ==
    IF ~is_trading_day(target_date) THEN TRUE ELSE FALSE

apply_date_span_patch(start_date, end_date) ==
    IF start_date = end_date THEN <<start_date, end_date + 1>>
    ELSE <<start_date, end_date>>

\* ----------------------------------------------------------------- codes
Chars(str) ==
    CASE str = "SH." -> <<"S", "H", ".">>
      [] str = "SZ." -> <<"S", "Z", ".">>
      [] str = ".SH" -> <<".", "S", "H">>
      [] str = ".SZ" -> <<".", "S", "Z">>
      [] str = ".SS" -> <<".", "S", "S">>
      [] str = "SH" -> <<"S", "H">>
      [] str = "SZ" -> <<"S", "Z">>
      [] str = "sh" -> <<"s", "h">>
      [] str = "CF." -> <<"C", "F", ".">>
      [] str = "=F" -> <<"=", "F">>
      [] str = "IF" -> <<"I", "F">>
      [] str = "IC" -> <<"I", "C">>
      [] str = "IM" -> <<"I", "M">>
      [] str = "IH" -> <<"I", "H">>
      [] str = "IF0" -> <<"I", "F", "0">>
      [] str = "601727" -> <<"6", "0", "1", "7", "2", "7">>
      [] str = "300857" -> <<"3", "0", "0", "8", "5", "7">>
      [] str = "AAPL" -> <<"A", "A", "P", "L">>

\* str.upper() on the letters that occur in codes
UpperChar(c) ==
    CASE c = "s" -> "S"
      [] c = "h" -> "H"
      [] c = "z" -> "Z"
      [] c = "c" -> "C"
      [] c = "f" -> "F"
      [] c = "i" -> "I"
      [] c = "m" -> "M"
      [] OTHER -> c

Upper(code) == [i \in 1..Len(code) |-> UpperChar(code[i])]

RECURSIVE Strip(_)
Strip(code) ==
    IF code = << >> THEN code
    ELSE IF Head(code) = " " THEN Strip(Tail(code))
    ELSE IF code[Len(code)] = " " THEN Strip(SubSeq(code, 1, Len(code) - 1))
    ELSE code

StartsWith(code, pre) ==
    Len(code) >= Len(pre) /\ SubSeq(code, 1, Len(pre)) = pre

RECURSIVE Replace(_, _)
\* str.replace(pat, ""): every occurrence, left to right
Replace(code, pat) ==
    IF code = << >> THEN << >>
    ELSE IF StartsWith(code, pat) THEN Replace(SubSeq(code, Len(pat) + 1, Len(code)), pat)
    ELSE <<Head(code)>> \o Replace(Tail(code), pat)

normalize_stock_code(code) ==
    LET c1 == Replace(Replace(Replace(code, Chars(".SH")), Chars(".SZ")), Chars(".SS"))
    IN  Replace(Replace(c1, Chars("SH")), Chars("SZ"))

convert_to_yfinance_symbol(code) ==
    LET Suffixed(clean_code) ==
            IF StartsWith(clean_code, <<"6">>) THEN clean_code \o Chars(".SS")
            ELSE IF StartsWith(clean_code, <<"0">>) \/ StartsWith(clean_code, <<"3">>)
                 THEN clean_code \o Chars(".SZ")
            ELSE clean_code \o Chars(".SS")
    IN  Suffixed(normalize_stock_code(code))

is_a_share_code(code) ==
    LET code_upper == Strip(Upper(code))
    IN  StartsWith(code_upper, Chars("SH.")) \/ StartsWith(code_upper, Chars("SZ."))

is_futures_main_code(code) ==
    LET code_upper == Strip(Upper(code))
        code_clean == Replace(Replace(code_upper, Chars("CF.")), Chars("=F"))
    IN  \E prefix \in {"IF", "IC", "IM", "IH"} : StartsWith(code_clean, Chars(prefix))

is_domestic_code(code) == is_a_share_code(code) \/ is_futures_main_code(code)

\* ------------------------------------------------------------- providers
\* The providers are outside the engine.  prov says how each answers now:
\*   hours       is_trading_hours()
\*   last_price  fast_info lastPrice / regularMarketPrice (0: none yet)
\*   info        ticker.info: "full" has the fundamentals, "zero" has none
\*   yf          ticker.history(): "ok", "zero" (bars with a 0.0 close), "empty",
\*               "ratelimit", "error"
\*   ak          ak.stock_zh_a_hist(): "ok", "empty", "error"
\*   bs          bs.query_history_k_data_plus(): "ok", "empty"
Holiday == MaxDay - 1

Close(d) == IF d % 2 = 0 THEN 10000 ELSE 5000
Vol(d) == 700 + d
TurnoverRate(d) == 300 + d

\* ticker.info when it carries the fundamentals (market cap already in 1e8 units)
InfoFull == [pe_ratio |-> 2000, pb_ratio |-> 400, market_cap |-> 1000, eps_forecast |-> 500]

\* an exchange publishes one bar per trading day that is no public holiday
HasBar(d) == is_trading_day(d) /\ d # Holiday /\ d <= today

Row(d, close, volume, turnover_rate, pe, pb, cap, eps) ==
    [date |-> d, close_price |-> close, volume |-> volume,
     turnover_rate |-> turnover_rate, pe_ratio |-> pe, pb_ratio |-> pb,
     market_cap |-> cap, eps_forecast |-> eps]

Call(api, start_date, end_date) ==
    [api |-> api, start_date |-> start_date, end_date |-> end_date]

Ret(df, exc, calls) == [df |-> df, exc |-> exc, calls |-> calls]

RECURSIVE BarDays(_, _)
\* the days lo..hi that have a bar, ascending
BarDays(lo, hi) ==
    IF lo > hi THEN << >>
    ELSE IF HasBar(lo) THEN <<lo>> \o BarDays(lo + 1, hi)
    ELSE BarDays(lo + 1, hi)

YfSymbols == {Chars("601727") \o Chars(".SS"), Chars("300857") \o Chars(".SZ")}
AkSymbols == {Chars("601727"), Chars("300857")}
BsSymbols == {Chars("sh") \o <<".">> \o Chars("601727"), <<"s", "z", ".">> \o Chars("300857")}

\* fetch_financial_indicators_yfinance: the defaults are 0.0, never None
fetch_financial_indicators_yfinance ==
    IF prov.info = "full" THEN InfoFull
    ELSE [pe_ratio |-> 0, pb_ratio |-> 0, market_cap |-> 0, eps_forecast |-> 0]

\* ticker.fast_info of a symbol
FastInfoPrice(symbol) == IF symbol \in YfSymbols THEN prov.last_price ELSE 0

QuoteRow(price) ==
    LET fi == fetch_financial_indicators_yfinance
    IN  Row(today, price, Vol(today), None, fi.pe_ratio, fi.pb_ratio,
            fi.market_cap, fi.eps_forecast)

\* ticker.history(start, end): end is exclusive
YfHistory(symbol, start_date, end_date) ==
    IF prov.yf = "ratelimit" THEN Ret(<< >>, "ratelimit", << >>)
    ELSE IF prov.yf = "error" THEN Ret(<< >>, "error", << >>)
    ELSE IF prov.yf = "empty" \/ symbol \notin YfSymbols THEN Ret(<< >>, "none", << >>)
    ELSE LET days == BarDays(start_date, end_date - 1)
         IN  Ret([i \in 1..Len(days) |->
                    Row(days[i], IF prov.yf = "zero" THEN 0 ELSE Close(days[i]),
                        Vol(days[i]), None, None, None, None, None)],
                 "none", << >>)

\* ak.stock_zh_a_hist(symbol, start, end): end is inclusive
AkHistory(symbol, start_date, end_date) ==
    IF prov.ak = "error" THEN Ret(<< >>, "error", << >>)
    ELSE IF prov.ak = "empty" \/ symbol \notin AkSymbols THEN Ret(<< >>, "none", << >>)
    ELSE LET days == BarDays(start_date, end_date)
         IN  Ret([i \in 1..Len(days) |->
                    Row(days[i], Close(days[i]), Vol(days[i]), TurnoverRate(days[i]),
                        None, None, None, None)],
                 "none", << >>)

\* bs.query_history_k_data_plus(code, start, end): end is inclusive
BsHistory(bs_code, start_date, end_date) ==
    IF prov.bs = "empty" \/ bs_code \notin BsSymbols THEN << >>
    ELSE LET days == BarDays(start_date, end_date)
         IN  [i \in 1..Len(days) |->
                Row(days[i], Close(days[i]), Vol(days[i]), TurnoverRate(days[i]),
                    None, None, None, None)]

fetch_realtime_price_yfinance(code) ==
    LET c1 == <<Call("yf_fast_info", today, today)>>
        c2 == c1 \o <<Call("yf_history_1d", today, today)>>
        Quote(symbol) ==
            LET last_price == FastInfoPrice(symbol)
                h == YfHistory(symbol, today, today + 1)
            IN  IF Truthy(last_price)
                THEN Ret(<<QuoteRow(last_price)>>, "none",
                         c1 \o <<Call("yf_info", today, today)>>)
                ELSE IF h.exc = "none" /\ h.df # << >>
                THEN Ret(<<[h.df[Len(h.df)] EXCEPT !.date = today]>>, "none", c2)
                ELSE Ret(<< >>, "none", c2)
    IN  Quote(convert_to_yfinance_symbol(code))

\* lines 809-942 of fetch_stock_data_yfinance, before its outer except
FetchStockDataYfinanceBody(code, start_date0, end_date0, use_realtime) ==
    LET span == apply_date_span_patch(start_date0, end_date0)
        Body(start_date, end_date, symbol, rt) ==
            LET last_price == FastInfoPrice(symbol)
                h == YfHistory(symbol, start_date, end_date)
                fi == fetch_financial_indicators_yfinance
                c1 == IF end_date >= today
                      THEN rt.calls \o <<Call("yf_fast_info", today, today)>>
                      ELSE rt.calls
                c2 == c1 \o <<Call("yf_history", start_date, end_date)>>
            IN  IF rt.df # << >> THEN rt
                ELSE IF end_date >= today /\ Truthy(last_price)
                THEN Ret(<<QuoteRow(last_price)>>, "none",
                         c1 \o <<Call("yf_info", today, today)>>)
                ELSE IF h.exc = "ratelimit" THEN Ret(<< >>, "ratelimit", c2)
                ELSE IF h.exc = "error" \/ h.df = << >> THEN Ret(<< >>, "none", c2)
                ELSE Ret([i \in 1..Len(h.df) |->
                            [h.df[i] EXCEPT !.pe_ratio = fi.pe_ratio,
                                            !.pb_ratio = fi.pb_ratio,
                                            !.market_cap = fi.market_cap,
                                            !.eps_forecast = fi.eps_forecast]],
                         "none", c2 \o <<Call("yf_info", today, today)>>)
    IN  Body(span[1], span[2], convert_to_yfinance_symbol(code),
             IF use_realtime /\ prov.hours /\ span[2] >= today
             THEN fetch_realtime_price_yfinance(code)
             ELSE Ret(<< >>, "none", << >>))

\* the YFinanceRateLimitError raised at line 881 is raised inside the try of
\* line 809, whose "except Exception" (line 944) returns None
fetch_stock_data_yfinance(code, start_date, end_date, use_realtime) ==
    LET Outer(r) == IF r.exc # "none" THEN Ret(<< >>, "none", r.calls) ELSE r
    IN  Outer(FetchStockDataYfinanceBody(code, start_date, end_date, use_realtime))

fetch_stock_data_akshare(code, start_date0, end_date0) ==
    IF ~is_a_share_code(code) THEN Ret(<< >>, "none", << >>)
    ELSE LET span == apply_date_span_patch(start_date0, end_date0)
             Hist(r) == Ret(IF r.exc = "none" THEN r.df ELSE << >>, "none",
                            <<Call("ak_stock_zh_a_hist", span[1], span[2])>>)
         IN  Hist(AkHistory(normalize_stock_code(code), span[1], span[2]))

fetch_stock_data_baostock(code, start_date, end_date) ==
    LET OfCode(clean_code) ==
            IF ~(StartsWith(clean_code, <<"6">>) \/ StartsWith(clean_code, <<"0">>)
                 \/ StartsWith(clean_code, <<"3">>))
            THEN Ret(<< >>, "none", << >>)
            ELSE Ret(BsHistory(IF StartsWith(clean_code, <<"6">>)
                               THEN Chars("sh") \o <<".">> \o clean_code
                               ELSE <<"s", "z", ".">> \o clean_code,
                               start_date, end_date),
                     "none", <<Call("bs_query_history", start_date, end_date)>>)
    IN  OfCode(normalize_stock_code(code))

\* shallow: the futures chain after main-contract resolution, one aggregator call
fetch_futures_data_akshare(code, start_date0, end_date0) ==
    IF ~is_futures_main_code(code) THEN Ret(<< >>, "none", << >>)
    ELSE LET span == apply_date_span_patch(start_date0, end_date0)
             days == BarDays(span[1], span[2])
         IN  Ret(IF prov.ak = "ok"
                 THEN [i \in 1..Len(days) |->
                         Row(days[i], Close(days[i]), Vol(days[i]), None, None, None, None, None)]
                 ELSE << >>,
                 "none", <<Call("ak_futures_zh_daily_sina", span[1], span[2])>>)

\* shallow: the fund chain, one aggregator call, rows filtered to [start, end]
fetch_fund_data(code, start_date0, end_date0) ==
    LET span == apply_date_span_patch(start_date0, end_date0)
        days == BarDays(span[1], span[2])
    IN  Ret(IF prov.ak = "ok" /\ normalize_stock_code(code) \in AkSymbols
            THEN [i \in 1..Len(days) |->
                    Row(days[i], Close(days[i]), Vol(days[i]), None, None, None, None, None)]
            ELSE << >>,
            "none", <<Call("ak_fund_etf_hist_sina", span[1], span[2])>>)

fetch_stock_data(code, start_date, end_date) ==
    LET Route(fut, ak, rt, yf, ak2, bs) ==
            LET c2 == fut.calls \o ak.calls
                c3 == c2 \o rt.calls
                c4 == c3 \o yf.calls
            IN  IF fut.df # << >> THEN Ret(fut.df, "none", fut.calls)
                ELSE IF ak.df # << >> THEN Ret(ak.df, "none", c2)
                ELSE IF rt.df # << >> THEN Ret(rt.df, "none", c3)
                ELSE IF yf.exc = "ratelimit"
                THEN IF ak2.df # << >> THEN Ret(ak2.df, "none", c4 \o ak2.calls)
                     ELSE Ret(<< >>, "ratelimit", c4 \o ak2.calls)
                ELSE IF yf.df # << >> THEN Ret(yf.df, "none", c4)
                ELSE IF bs.df # << >> THEN Ret(bs.df, "none", c4 \o bs.calls)
                ELSE Ret(<< >>, "none", c4 \o bs.calls)
    IN  Route(IF is_futures_main_code(code)
              THEN fetch_futures_data_akshare(code, start_date, end_date)
              ELSE Ret(<< >>, "none", << >>),
              IF is_a_share_code(code)
              THEN fetch_stock_data_akshare(code, start_date, end_date)
              ELSE Ret(<< >>, "none", << >>),
              IF end_date >= today /\ prov.hours /\ ~is_futures_main_code(code)
              THEN fetch_stock_data_yfinance(code, start_date, end_date, TRUE)
              ELSE Ret(<< >>, "none", << >>),
              fetch_stock_data_yfinance(code, start_date, end_date, FALSE),
              IF is_domestic_code(code)
              THEN fetch_stock_data_akshare(code, start_date, end_date)
              ELSE Ret(<< >>, "none", << >>),
              IF is_a_share_code(code)
              THEN fetch_stock_data_baostock(code, start_date, end_date)
              ELSE Ret(<< >>, "none", << >>))

\* ------------------------------------------------------------ the tables
\* table assets: the rows there can be.  Asset 3 is the share of asset 1,
\* registered by the other user under the bare six-digit code.
AllAssets ==
    (1 :> [id |-> 1, user_id |-> 1, asset_type |-> "stock", code |-> Chars("SH.") \o Chars("601727")])
    @@ (2 :> [id |-> 2, user_id |-> 2, asset_type |-> "stock", code |-> Chars("SZ") \o Chars("300857")])
    @@ (3 :> [id |-> 3, user_id |-> 2, asset_type |-> "stock", code |-> Chars("601727")])

\* the rows of a server with the first two assets (CRUD is out of scope: the
\* rows of a run are fixed)
ListedAssets == {1, 2}

\* the rows of table assets: baseline holds their column baseline_price
Assets == [a \in DOMAIN baseline |-> AllAssets[a]]

AssetIds == DOMAIN Assets

\* table users: is_active per user id
Users == (1 :> TRUE) @@ (2 :> TRUE)

Contains(code, sub) ==
    \E i \in 0..(Len(code) - Len(sub)) : SubSeq(code, i + 1, i + Len(sub)) = sub

\* Query.first() without order_by: the row with the lowest primary key
FirstIn(S) == IF S = {} THEN None ELSE CHOOSE x \in S : \A y \in S : x <= y

\* db.query(MarketData).filter(asset_id == a, date == d).first(): index or None
FindRecord(rows, a, d) ==
    FirstIn({i \in 1..Len(rows) : rows[i].asset_id = a /\ rows[i].date = d})

\* ...filter(asset_id == a, date < d).order_by(date.desc()).first(): index or None
LatestBefore(rows, a, d) ==
    LET S == {i \in 1..Len(rows) : rows[i].asset_id = a /\ rows[i].date < d}
    IN  IF S = {} THEN None
        ELSE CHOOSE i \in S : \A j \in S :
                rows[j].date < rows[i].date \/ (rows[j].date = rows[i].date /\ i <= j)

RECURSIVE OrderByDateAsc(_, _)
\* ...order_by(MarketData.date.asc()).all(): the indices in keep, by date
OrderByDateAsc(rows, keep) ==
    IF keep = {} THEN << >>
    ELSE LET i == CHOOSE k \in keep : \A j \in keep :
                    rows[k].date < rows[j].date \/ (rows[k].date = rows[j].date /\ k <= j)
         IN  <<i>> \o OrderByDateAsc(rows, keep \ {i})

RowOfRecord(r) ==
    Row(r.date, r.close_price, r.volume, r.turnover_rate, r.pe_ratio, r.pb_ratio,
        r.market_cap, r.eps_forecast)

fetch_cached_market_data(code, start_date, end_date, db) ==
    LET Rows(idx) == [i \in 1..Len(idx) |-> RowOfRecord(db[idx[i]])]
        OfAsset(asset) ==
            IF asset = None THEN << >>
            ELSE Rows(OrderByDateAsc(db, {i \in 1..Len(db) :
                        db[i].asset_id = asset /\ db[i].date >= start_date
                        /\ db[i].date <= end_date}))
        Like(exact) ==
            IF exact = None /\ is_a_share_code(code)
            THEN FirstIn({a \in AssetIds :
                            Contains(Assets[a].code, normalize_stock_code(code))})
            ELSE exact
    IN  OfAsset(Like(FirstIn({a \in AssetIds : Assets[a].code = code})))

MAX_BACKTRACK_DAYS == 5

RECURSIVE FallbackBacktrack(_, _, _)
\* lines 1218-1232: fetch_stock_data for today-1 .. today-5, first hit re-dated to today
FallbackBacktrack(code, days_back, calls) ==
    IF days_back > MAX_BACKTRACK_DAYS THEN Ret(<< >>, "none", calls)
    ELSE LET fallback_date == today - days_back
             Try(r) ==
                 IF r.exc = "none" /\ r.df # << >>
                 THEN Ret([i \in 1..Len(r.df) |-> [r.df[i] EXCEPT !.date = today]], "none",
                          calls \o r.calls)
                 ELSE FallbackBacktrack(code, days_back + 1, calls \o r.calls)
         IN  Try(fetch_stock_data(code, fallback_date, fallback_date))

fetch_stock_data_with_fallback(code, target_date, db) ==
    LET asset == FirstIn({a \in AssetIds : Contains(Assets[a].code, normalize_stock_code(code))})
        Route(rt, sd, latest) ==
            LET c2 == rt.calls \o sd.calls
                c3 == c2 \o <<Call("db_latest_before_today", today, today)>>
            IN  IF rt.df # << >> THEN Ret(rt.df, "none", rt.calls)
                ELSE IF sd.exc = "none" /\ sd.df # << >> THEN Ret(sd.df, "none", c2)
                ELSE IF target_date # today THEN Ret(<< >>, "none", c2)
                ELSE IF latest # None
                THEN Ret(<<Row(target_date, db[latest].close_price,
                               IF Truthy(db[latest].volume) THEN db[latest].volume ELSE None,
                               IF Truthy(db[latest].turnover_rate)
                               THEN db[latest].turnover_rate ELSE None,
                               None, None, None, None)>>,
                         "none", c3)
                ELSE FallbackBacktrack(code, 1, c3)
    IN  Route(IF target_date = today /\ prov.hours
              THEN fetch_stock_data_yfinance(code, target_date, target_date, TRUE)
              ELSE Ret(<< >>, "none", << >>),
              fetch_stock_data(code, target_date, target_date),
              IF asset = None THEN None ELSE LatestBefore(db, asset, today))

\* rows without a date or a close price are dropped; the row shape is kept
parse_market_data(df) ==
    LET keep == {i \in 1..Len(df) : df[i].date # None /\ df[i].close_price # None}
        idx == SeqFilterIdx(df, keep, 1)
    IN  [i \in 1..Len(idx) |-> df[idx[i]]]

\* lines 1684-1740: the stock route
FetchAssetDataStock(code, start_date, end_date, has_db, db) ==
    LET Route(fb, yf, ak, cache) ==
            LET c2 == fb.calls \o yf.calls
                c3 == c2 \o ak.calls
                c4 == IF has_db THEN c3 \o <<Call("db_cache", start_date, end_date)>> ELSE c3
            IN  IF fb.df # << >> THEN fb
                ELSE IF yf.exc = "none" THEN Ret(yf.df, "none", c2)
                ELSE IF ak.df # << >> THEN Ret(ak.df, "none", c3)
                ELSE Ret(cache, "none", c4)
    IN  Route(IF end_date = today /\ has_db
              THEN fetch_stock_data_with_fallback(code, today, db)
              ELSE Ret(<< >>, "none", << >>),
              fetch_stock_data_yfinance(IF is_domestic_code(code)
                                        THEN convert_to_yfinance_symbol(code) ELSE code,
                                        start_date, end_date, end_date = today),
              IF is_domestic_code(code)
              THEN fetch_stock_data_akshare(code, start_date, end_date)
              ELSE Ret(<< >>, "none", << >>),
              IF has_db THEN fetch_cached_market_data(code, start_date, end_date, db)
              ELSE << >>)

\* a date string no format of normalize_date_str accepts
BadDate == 0 - 1

\* normalize_date_str: the day, or ValueError raised
normalize_date_str(date_input) == IF date_input = BadDate THEN "ValueError" ELSE "none"

\* the except clause of lines 1647-1649 re-raising the ValueError
DateErrorRaised == [rows |-> << >>, calls |-> << >>, exc |-> "ValueError"]

\* lines 1647-1649: except ValueError: return []
DateError == [rows |-> << >>, calls |-> << >>, exc |-> "none"]

\* exc is the exception that leaves fetch_asset_data ("none": it returned)
fetch_asset_data(code, asset_type, start_date0, end_date0, has_db, db) ==
    LET span == apply_date_span_patch(start_date0, end_date0)
        start_date == span[1]
        end_date == span[2]
        Parsed(r) == [rows |-> parse_market_data(r.df), calls |-> r.calls, exc |-> "none"]
    IN  IF normalize_date_str(start_date0) # "none" \/ normalize_date_str(end_date0) # "none"
        THEN DateError
        ELSE Parsed(IF asset_type = "futures" \/ is_futures_main_code(code)
                    THEN fetch_futures_data_akshare(code, start_date, end_date)
                    ELSE IF asset_type = "stock"
                    THEN FetchAssetDataStock(code, start_date, end_date, has_db, db)
                    ELSE IF asset_type = "fund"
                    THEN fetch_fund_data(code, start_date, end_date)
                    ELSE Ret(<< >>, "none", << >>))

\* ------------------------------------------------------- the store writer
\* A session is made with autoflush=False (database/config.py:85): a query
\* reads the committed rows, with the attribute changes this session made to
\* them, and never the rows this session added and has not committed yet.
\* Table market_data has no unique constraint on (asset_id, date).
Record(a, row) ==
    [asset_id |-> a, date |-> row.date, close_price |-> row.close_price,
     volume |-> row.volume, turnover_rate |-> row.turnover_rate,
     pe_ratio |-> row.pe_ratio, pb_ratio |-> row.pb_ratio,
     market_cap |-> row.market_cap, eps_forecast |-> row.eps_forecast]

\* lines 1820-1853: update of the existing row
StoreUpdateExisting(existing, data) ==
    [existing EXCEPT
        !.close_price = data.close_price,
        !.volume = data.volume,
        !.turnover_rate = data.turnover_rate,
        !.pe_ratio = IF data.pe_ratio # None THEN data.pe_ratio ELSE @,
        !.pb_ratio = IF data.pb_ratio # None THEN data.pb_ratio ELSE @,
        !.market_cap = IF data.market_cap # None /\ data.market_cap > 0
                       THEN data.market_cap ELSE @,
        !.eps_forecast = IF data.eps_forecast # None THEN data.eps_forecast ELSE @]

\* lines 1854-1875: the new row
StoreNewRecord(a, data) ==
    [Record(a, data) EXCEPT
        !.market_cap = IF data.market_cap # None /\ data.market_cap = 0 THEN None ELSE @]

\* the session's look-up of (asset_id, date) before an insert
SessionFind(rows, pending, a, d) == FindRecord(rows, a, d)

RECURSIVE StoreLoop(_, _, _)
\* lines 1806-1888: st = [rows, pending, base], one item of the list per step;
\* an item that raises (date.fromisoformat at line 1808) is logged and skipped
StoreLoop(a, list, st) ==
    IF list = << >> THEN st
    ELSE IF Head(list).date = BadDate THEN StoreLoop(a, Tail(list), st)
    ELSE LET data == Head(list)
             existing == SessionFind(st.rows, st.pending, a, data.date)
             st1 == IF existing # None
                    THEN [st EXCEPT !.rows[existing] = StoreUpdateExisting(@, data)]
                    ELSE [st EXCEPT !.pending = Append(@, StoreNewRecord(a, data))]
             st2 == IF data.date = BASELINE_DATE /\ Truthy(data.close_price)
                    THEN [st1 EXCEPT !.base = data.close_price]
                    ELSE st1
         IN  StoreLoop(a, Tail(list), st2)

store_market_data(a, list) ==
    StoreLoop(a, list, [rows |-> market_data, pending |-> << >>, base |-> baseline[a]])

\* ------------------------------------------------ the reconciliation pass
\* ...filter(asset_id == a, pe_ratio not null, pe_ratio != 0).order_by(date.desc()).first()
LatestWithMetrics(rows, a) ==
    LET S == {i \in 1..Len(rows) : rows[i].asset_id = a /\ Truthy(rows[i].pe_ratio)}
        T == IF S # {} THEN S ELSE {i \in 1..Len(rows) : rows[i].asset_id = a}
    IN  IF T = {} THEN None
        ELSE CHOOSE i \in T : \A j \in T :
                rows[j].date < rows[i].date \/ (rows[j].date = rows[i].date /\ i <= j)

NoRef == [pe |-> None, pb |-> None, market_cap |-> None, eps |-> None, price |-> None]

\* lines 2193-2199
RefOfLatest(rows, a) ==
    LET i == LatestWithMetrics(rows, a)
    IN  IF i = None THEN NoRef
        ELSE [pe |-> IF Truthy(rows[i].pe_ratio) THEN rows[i].pe_ratio ELSE None,
              pb |-> IF Truthy(rows[i].pb_ratio) THEN rows[i].pb_ratio ELSE None,
              market_cap |-> IF rows[i].market_cap # None /\ rows[i].market_cap > 0
                             THEN rows[i].market_cap ELSE None,
              eps |-> IF Truthy(rows[i].eps_forecast) THEN rows[i].eps_forecast ELSE None,
              price |-> rows[i].close_price]

\* lines 2341-2353: the look-up does not see a record added in this session
RefAfterToday(rows, a, ref, today_updated, today_is_temporary) ==
    LET i == FindRecord(rows, a, today)
    IN  IF today_updated /\ ~today_is_temporary /\ i # None /\ Truthy(rows[i].pe_ratio)
        THEN [pe |-> rows[i].pe_ratio,
              pb |-> IF Truthy(rows[i].pb_ratio) THEN rows[i].pb_ratio ELSE None,
              market_cap |-> IF rows[i].market_cap # None /\ rows[i].market_cap > 0
                             THEN rows[i].market_cap ELSE None,
              eps |-> IF Truthy(rows[i].eps_forecast) THEN rows[i].eps_forecast ELSE None,
              price |-> rows[i].close_price]
        ELSE ref

\* TodayOverwrite that keeps the price of the first response
TodayOverwriteKeepsPrice(existing_today, today_data) ==
    [existing_today EXCEPT
        !.volume = today_data.volume,
        !.turnover_rate = today_data.turnover_rate]

\* lines 2245-2257: the existing today record takes the response
TodayOverwrite(existing_today, today_data) ==
    [existing_today EXCEPT
        !.close_price = today_data.close_price,
        !.volume = today_data.volume,
        !.turnover_rate = today_data.turnover_rate,
        !.pe_ratio = IF today_data.pe_ratio # None THEN today_data.pe_ratio ELSE @,
        !.pb_ratio = IF today_data.pb_ratio # None THEN today_data.pb_ratio ELSE @,
        !.market_cap = IF today_data.market_cap # None /\ today_data.market_cap > 0
                       THEN today_data.market_cap ELSE @,
        !.eps_forecast = IF today_data.eps_forecast # None THEN today_data.eps_forecast ELSE @]

\* lines 2216-2335: st = [rows, pending], plus the two flags and the fetch
\* TodayFetch behind the calendar filter and the existing-record check
TodayFetchFiltered(a, rows) ==
    IF should_skip_api_request(today) \/ FindRecord(rows, a, today) # None
    THEN [rows |-> << >>, calls |-> << >>]
    ELSE fetch_asset_data(Assets[a].code, Assets[a].asset_type, today, today, TRUE, rows)

\* lines 2219-2225: the request for today, whatever the calendar and the store say
TodayFetch(a, rows) ==
    fetch_asset_data(Assets[a].code, Assets[a].asset_type, today, today, TRUE, rows)

TodayStep(a, rows) ==
    LET existing_today == FindRecord(rows, a, today)
        latest_data == LatestBefore(rows, a, today)
        Step(f) ==
            LET base == [rows |-> rows, pending |-> << >>, today_updated |-> FALSE,
                         today_is_temporary |-> FALSE, fetched |-> f.rows, calls |-> f.calls]
                today_data == f.rows[1]
            IN  IF f.rows # << >>
                THEN IF ~Truthy(today_data.close_price) THEN base
                     ELSE IF existing_today # None
                     THEN [base EXCEPT
                             !.rows[existing_today] = TodayOverwrite(@, today_data),
                             !.today_updated = TRUE]
                     ELSE [base EXCEPT
                             !.pending = <<[Record(a, today_data) EXCEPT
                                              !.date = today,
                                              !.market_cap =
                                                  IF Truthy(today_data.market_cap)
                                                     /\ today_data.market_cap > 0
                                                  THEN today_data.market_cap ELSE None]>>,
                             !.today_updated = TRUE]
                ELSE IF latest_data = None THEN base
                ELSE IF existing_today # None
                THEN [base EXCEPT
                        !.rows[existing_today] = [rows[latest_data] EXCEPT !.date = today],
                        !.today_updated = TRUE, !.today_is_temporary = TRUE]
                ELSE [base EXCEPT !.pending = <<[rows[latest_data] EXCEPT !.date = today]>>,
                                  !.today_updated = TRUE, !.today_is_temporary = TRUE]
    IN  Step(TodayFetch(a, rows))

\* has_pb with the comparison turned round
has_pb_zero(r) == r.pb_ratio # None /\ r.pb_ratio = 0

\* has_pe with the comparison turned round
has_pe_zero(r) == r.pe_ratio # None /\ r.pe_ratio = 0

has_price(r) == r.close_price # None
has_pe(r) == r.pe_ratio # None /\ r.pe_ratio # 0
has_pb(r) == r.pb_ratio # None /\ r.pb_ratio # 0
has_metrics(r) == has_pe(r) \/ has_pb(r) \/ (r.market_cap # None /\ r.market_cap > 0)

RECURSIVE MissingDatesUncounted(_, _, _, _)
\* the scan without its count of the days checked
MissingDatesUncounted(rows, a, check_date, days_checked) ==
    IF ~(check_date >= BASELINE_DATE) THEN << >>
    ELSE IF ~is_trading_day(check_date)
    THEN MissingDatesUncounted(rows, a, check_date - 1, days_checked)
    ELSE LET i == FindRecord(rows, a, check_date)
             complete == i # None /\ has_price(rows[i]) /\ has_metrics(rows[i])
                         /\ has_pe(rows[i]) /\ has_pb(rows[i])
         IN  (IF complete THEN << >> ELSE <<check_date>>)
             \o MissingDatesUncounted(rows, a, check_date - 1, days_checked + 1)

RECURSIVE MissingDates(_, _, _, _)
\* lines 2366-2402: newest first, weekends stepped over without being counted
MissingDates(rows, a, check_date, days_checked) ==
    IF ~(check_date >= BASELINE_DATE /\ days_checked < MAX_BACKTRACK_DAYS) THEN << >>
    ELSE IF ~is_trading_day(check_date) THEN MissingDates(rows, a, check_date - 1, days_checked)
    ELSE LET i == FindRecord(rows, a, check_date)
             complete == i # None /\ has_price(rows[i]) /\ has_metrics(rows[i])
                         /\ has_pe(rows[i]) /\ has_pb(rows[i])
         IN  (IF complete THEN << >> ELSE <<check_date>>)
             \o MissingDates(rows, a, check_date - 1, days_checked + 1)

\* ref_x * (price / ref_price) when the reference has x and a positive price
Derive(ref_x, ref, price) ==
    IF Truthy(ref_x) /\ Truthy(ref.price) /\ ref.price > 0
    THEN MulDiv(ref_x, price, ref.price) ELSE None

Coalesce(x, y) == IF x # None THEN x ELSE y

\* lines 2446-2487: record with a price, PE or PB missing, and a returned row
FillMetrics(rec, hist_data, ref) ==
    LET pe == IF hist_data.pe_ratio # None THEN hist_data.pe_ratio
              ELSE IF ~has_pe(rec) THEN Coalesce(Derive(ref.pe, ref, rec.close_price), rec.pe_ratio)
              ELSE rec.pe_ratio
        pb == IF hist_data.pb_ratio # None THEN hist_data.pb_ratio
              ELSE IF ~has_pb(rec) THEN Coalesce(Derive(ref.pb, ref, rec.close_price), rec.pb_ratio)
              ELSE rec.pb_ratio
        close == Coalesce(hist_data.close_price, rec.close_price)
    IN  [rec EXCEPT
            !.pe_ratio = pe,
            !.pb_ratio = pb,
            !.close_price = close,
            !.volume = Coalesce(hist_data.volume, @),
            !.turnover_rate = Coalesce(hist_data.turnover_rate, @),
            !.market_cap = IF hist_data.market_cap # None /\ hist_data.market_cap > 0
                           THEN hist_data.market_cap
                           ELSE Coalesce(Derive(ref.market_cap, ref, close), @),
            !.eps_forecast = IF hist_data.eps_forecast # None THEN hist_data.eps_forecast
                             ELSE IF Truthy(ref.eps) THEN ref.eps ELSE @]

\* lines 2509-2542 and 2564-2601: the row's price, its fundamentals or derived ones
FillFromRow(rec, hist_data, ref) ==
    LET hist_price == hist_data.close_price
    IN  [rec EXCEPT
            !.close_price = hist_price,
            !.volume = hist_data.volume,
            !.turnover_rate = hist_data.turnover_rate,
            !.pe_ratio = IF hist_data.pe_ratio # None THEN hist_data.pe_ratio
                         ELSE Coalesce(Derive(ref.pe, ref, hist_price), @),
            !.pb_ratio = IF hist_data.pb_ratio # None THEN hist_data.pb_ratio
                         ELSE Coalesce(Derive(ref.pb, ref, hist_price), @),
            !.market_cap = IF hist_data.market_cap # None /\ hist_data.market_cap > 0
                           THEN hist_data.market_cap
                           ELSE Coalesce(Derive(ref.market_cap, ref, hist_price), @),
            !.eps_forecast = IF hist_data.eps_forecast # None THEN hist_data.eps_forecast
                             ELSE IF Truthy(ref.eps) THEN ref.eps ELSE @]

EmptyRecord(a, d) ==
    [asset_id |-> a, date |-> d, close_price |-> None, volume |-> None,
     turnover_rate |-> None, pe_ratio |-> None, pb_ratio |-> None,
     market_cap |-> None, eps_forecast |-> None]

\* lines 2409-2614, one missing date: st = [rows, pending, hist]
FillOne(a, current_date, ref, st) ==
    LET existing_record == FindRecord(st.rows, a, current_date)
        Fill(f) ==
            LET st1 == [st EXCEPT !.hist = Append(@, [date |-> current_date,
                                                      fetched |-> f.rows,
                                                      calls |-> f.calls])]
                rec == st.rows[existing_record]
            IN  IF existing_record # None
                THEN IF has_price(rec) /\ has_pe(rec) /\ has_pb(rec) THEN st
                     ELSE IF has_price(rec)
                     THEN IF f.rows = << >> THEN st1
                          ELSE [st1 EXCEPT
                                  !.rows[existing_record] = FillMetrics(rec, f.rows[1], ref)]
                     ELSE IF f.rows = << >> \/ ~Truthy(f.rows[1].close_price) THEN st1
                     ELSE [st1 EXCEPT
                             !.rows[existing_record] = FillFromRow(rec, f.rows[1], ref)]
                ELSE IF f.rows = << >> \/ ~Truthy(f.rows[1].close_price) THEN st1
                ELSE [st1 EXCEPT !.pending =
                        Append(@, FillFromRow(EmptyRecord(a, current_date), f.rows[1], ref))]
    IN  IF should_skip_api_request(current_date) THEN st
        ELSE Fill(fetch_asset_data(Assets[a].code, Assets[a].asset_type, current_date,
                                   current_date, TRUE, st.rows))

RECURSIVE FillLoop(_, _, _, _)
FillLoop(a, missing_dates, ref, st) ==
    IF missing_dates = << >> THEN st
    ELSE FillLoop(a, Tail(missing_dates), ref, FillOne(a, Head(missing_dates), ref, st))

\* lines 2337-2620: the pass over the look-back window, after today's step t
UpdateHistory(a, ref0, t) ==
    LET ref == RefAfterToday(t.rows, a, ref0, t.today_updated, t.today_is_temporary)
        missing_dates == MissingDates(t.rows, a, today - 1, 0)
        Result(h) ==
            [rows |-> h.rows \o h.pending, ref |-> ref, missing_dates |-> missing_dates,
             today_fetched |-> t.fetched, today_calls |-> t.calls,
             today_updated |-> t.today_updated,
             today_is_temporary |-> t.today_is_temporary, hist |-> h.hist]
    IN  Result(FillLoop(a, missing_dates, ref,
                        [rows |-> t.rows, pending |-> t.pending, hist |-> << >>]))

\* update_asset_data for an asset that exists: the rows committed at the end,
\* and what the pass did
update_asset_data(a) ==
    UpdateHistory(a, RefOfLatest(market_data, a), TodayStep(a, market_data))

\* ------------------------------------------------------------- calibrate
\* lines 1954-1997, the stock route: yfinance first, AkShare when it gave nothing
CalibrateFetch(a, target_date) ==
    LET code == Assets[a].code
        end_date == target_date + 1
        IsAshare(normalized_code) ==
            is_a_share_code(code)
            \/ StartsWith(Upper(code), Chars("SH")) \/ StartsWith(Upper(code), Chars("SZ"))
            \/ StartsWith(normalized_code, <<"6">>) \/ StartsWith(normalized_code, <<"0">>)
            \/ StartsWith(normalized_code, <<"3">>)
        Pick(is_ashare, yf, ak) ==
            IF parse_market_data(yf.df) # << >> \/ ~is_ashare
            THEN [rows |-> parse_market_data(yf.df), calls |-> yf.calls]
            ELSE [rows |-> parse_market_data(ak.df), calls |-> yf.calls \o ak.calls]
    IN  Pick(IsAshare(normalize_stock_code(code)),
             fetch_stock_data_yfinance(IF IsAshare(normalize_stock_code(code))
                                       THEN convert_to_yfinance_symbol(code) ELSE code,
                                       target_date, end_date, FALSE),
             fetch_stock_data_akshare(code, target_date, end_date))

\* lines 2047-2058: every field is overwritten, None included
CalibrateOverwrite(existing, data) ==
    [existing EXCEPT
        !.close_price = data.close_price,
        !.volume = data.volume,
        !.turnover_rate = data.turnover_rate,
        !.pe_ratio = data.pe_ratio,
        !.pb_ratio = data.pb_ratio,
        !.market_cap = IF Truthy(data.market_cap) /\ data.market_cap > 0
                       THEN data.market_cap ELSE None,
        !.eps_forecast = data.eps_forecast]

\* custom_update_asset_data for an asset that exists
custom_update_asset_data(a, target_date) ==
    LET Apply(f) ==
            LET hit == {i \in 1..Len(f.rows) : f.rows[i].date = target_date}
                data == IF hit # {} THEN f.rows[FirstIn(hit)] ELSE f.rows[1]
                existing == FindRecord(market_data, a, data.date)
            IN  IF f.rows = << >>
                THEN [rows |-> market_data, fetched |-> f.rows, calls |-> f.calls]
                ELSE IF existing # None
                THEN [rows |-> [market_data EXCEPT ![existing] = CalibrateOverwrite(@, data)],
                      fetched |-> f.rows, calls |-> f.calls]
                ELSE [rows |-> Append(market_data, StoreNewRecord(a, data)),
                      fetched |-> f.rows, calls |-> f.calls]
    IN  Apply(CalibrateFetch(a, target_date))

\* ------------------------------------------------------------ the engine
\* the server is started on a Saturday, with an empty store
FirstDay == MaxDay - 3

\* what the providers can be doing
Prov(hours, last_price, info, yf, ak, bs) ==
    [hours |-> hours, last_price |-> last_price, info |-> info, yf |-> yf, ak |-> ak, bs |-> bs]

ProvStates ==
    {Prov(TRUE, 7500, "full", "ok", "ok", "ok"),
     Prov(TRUE, 8000, "zero", "ok", "ok", "ok"),
     Prov(FALSE, 0, "zero", "ok", "empty", "empty"),
     Prov(FALSE, 0, "zero", "zero", "empty", "empty"),
     Prov(FALSE, 0, "zero", "empty", "empty", "empty")}

\* the lists store_market_data is given: rows as the fetch layer shapes them
BatchRows ==
    {Row(d, Close(d), Vol(d), TurnoverRate(d), None, None, None, None) :
        d \in {today - 1, today}}
    \cup {Row(today, Close(today) + 100, Vol(today), None, InfoFull.pe_ratio,
               InfoFull.pb_ratio, 0, InfoFull.eps_forecast)}

\* the lists with an item whose date does not parse, and yesterday's bar with
\* the fundamentals of a ticker.info that has trailingPE but no priceToBook
Batches ==
    LET data == Row(today, Close(today), Vol(today), TurnoverRate(today),
                    None, None, None, None)
    IN  UNION {[1..n -> BatchRows] : n \in 1..MaxBatch}
        \cup {<<[data EXCEPT !.date = BadDate], data>>,
              <<data, [data EXCEPT !.date = BadDate]>>,
              <<Row(today - 1, Close(today - 1), Vol(today - 1), None,
                    InfoFull.pe_ratio, 0, 0, 0)>>}

NoLast ==
    [op |-> "none", n |-> 0, asset |-> 0, today |-> 0, pre |-> << >>, prov |-> prov,
     batch |-> << >>, target_date |-> None, ref |-> NoRef, missing_dates |-> << >>,
     today_fetched |-> << >>, today_calls |-> << >>, today_updated |-> FALSE,
     today_is_temporary |-> FALSE, hist |-> << >>, repeat |-> FALSE,
     prev_fetched |-> << >>]

\* the other components at rest
FetchIdle == [code |-> << >>, asset_type |-> "stock", start_date |-> 0, end_date |-> 0]
\* ret and pre: what the last save_rankings returned, and the table before it
RankIdle ==
    [fn |-> "none", target_date |-> 0, out |-> << >>, active |-> Users,
     ret |-> "none", pre |-> << >>]

Init ==
    /\ today = FirstDay
    /\ prov \in ProvStates
    /\ market_data = << >>
    /\ baseline = [a \in ListedAssets |-> None]
    /\ last = [NoLast EXCEPT !.prov = prov]
    /\ fin = FetchIdle
    /\ fout = << >>
    /\ rankings = << >>
    /\ rk = RankIdle
    /\ tasks = << >>
    /\ worker = << >>

\* midnight, Beijing time
Tick ==
    /\ today < MaxDay
    /\ last.n < MaxOps
    /\ today' = today + 1
    /\ UNCHANGED <<prov, market_data, baseline, last, fin, fout, rankings, rk, tasks, worker>>

\* the providers change their behaviour
ProviderChange ==
    /\ last.n < MaxOps
    /\ \E p \in ProvStates \ {prov} : prov' = p
    /\ UNCHANGED <<today, market_data, baseline, last, fin, fout, rankings, rk, tasks, worker>>

Store(a, list) ==
    LET Commit(r) ==
            /\ market_data' = r.rows \o r.pending
            /\ baseline' = [baseline EXCEPT ![a] = r.base]
    IN  /\ last.n < MaxOps
        /\ Commit(store_market_data(a, list))
        /\ last' = [NoLast EXCEPT !.op = "store", !.n = last.n + 1, !.asset = a,
                                  !.today = today, !.pre = market_data, !.batch = list]
        /\ UNCHANGED <<today, prov, fin, fout, rankings, rk, tasks, worker>>

Update(a) ==
    LET repeat == last.op = "update" /\ last.asset = a /\ last.today = today
        Commit(r) ==
            /\ market_data' = r.rows
            /\ last' = [NoLast EXCEPT
                          !.op = "update", !.n = last.n + 1, !.asset = a,
                          !.today = today, !.pre = market_data, !.ref = r.ref,
                          !.missing_dates = r.missing_dates,
                          !.today_fetched = r.today_fetched,
                          !.today_calls = r.today_calls,
                          !.today_updated = r.today_updated,
                          !.today_is_temporary = r.today_is_temporary,
                          !.hist = r.hist, !.repeat = repeat,
                          !.prev_fetched = IF repeat THEN last.today_fetched ELSE << >>]
    IN  /\ last.n < MaxOps
        /\ Commit(update_asset_data(a))
        /\ UNCHANGED <<today, prov, baseline, fin, fout, rankings, rk, tasks, worker>>

Calibrate(a, target_date) ==
    LET Commit(r) ==
            /\ market_data' = r.rows
            /\ last' = [NoLast EXCEPT !.op = "calibrate", !.n = last.n + 1, !.asset = a,
                                      !.today = today, !.pre = market_data,
                                      !.target_date = target_date,
                                      !.today_fetched = r.fetched, !.today_calls = r.calls]
    IN  /\ last.n < MaxOps
        /\ Commit(custom_update_asset_data(a, target_date))
        /\ UNCHANGED <<today, prov, baseline, fin, fout, rankings, rk, tasks, worker>>

Next ==
    \/ Tick
    \/ ProviderChange
    \/ \E a \in AssetIds, list \in Batches : Store(a, list)
    \/ \E a \in AssetIds : Update(a)
    \/ \E a \in AssetIds, d \in {today - 1, today} : Calibrate(a, d)

Spec == Init /\ [][Next]_vars

\* ================================================================ claims
ProviderApis ==
    {"yf_fast_info", "yf_info", "yf_history", "yf_history_1d", "ak_stock_zh_a_hist",
     "bs_query_history", "ak_futures_zh_daily_sina", "ak_fund_etf_hist_sina"}

ProviderCalls(calls) == {i \in 1..Len(calls) : calls[i].api \in ProviderApis}

\* every provider call of the last pass, the today step first
AllCalls(l) ==
    LET RECURSIVE Cat(_)
        Cat(h) == IF h = << >> THEN << >> ELSE Head(h).calls \o Cat(Tail(h))
    IN  l.today_calls \o Cat(l.hist)

RecordsOf(rows, a, d) == {i \in 1..Len(rows) : rows[i].asset_id = a /\ rows[i].date = d}

\* C1 (as stated): after any sequence of store_market_data, update_asset_data
\* and calibrate calls the store holds at most one record per (instrument,
\* date), a repeated date inside one batch included.
C1_AtMostOneRecordPerDate ==
    \A i, j \in 1..Len(market_data) :
        (market_data[i].asset_id = market_data[j].asset_id
         /\ market_data[i].date = market_data[j].date) => i = j

\* C2: every run of update_asset_data issues a provider call for today's
\* date, whatever the calendar says and whether or not today's record exists.
C2_TodayFetchAlwaysIssued ==
    last.op = "update" =>
        \E i \in ProviderCalls(last.today_calls) : last.today_calls[i].start_date = last.today

\* a run on a weekend day whose record was already stored
C2_Witness ==
    /\ last.op = "update"
    /\ ~is_trading_day(last.today)
    /\ FindRecord(last.pre, last.asset, last.today) # None
    /\ \E i \in ProviderCalls(last.today_calls) : last.today_calls[i].start_date = last.today

\* the second of two runs on one day, both answered, the answers different
SecondResponseDiffers ==
    /\ last.op = "update"
    /\ last.repeat
    /\ last.prev_fetched # << >>
    /\ last.today_fetched # << >>
    /\ last.today_fetched[1] # last.prev_fetched[1]

\* C3 (amended): when the second response for today differs from the first
\* and has a positive price, today's record has the second response's price,
\* volume and turnover rate, each of PE, PB and EPS that the response gives
\* (not null), and its market cap when that is positive.
C3_SecondResponseOverwrites ==
    (SecondResponseDiffers /\ Truthy(last.today_fetched[1].close_price)) =>
        LET i == FindRecord(market_data, last.asset, last.today)
            d == last.today_fetched[1]
        IN  /\ i # None
            /\ market_data[i].close_price = d.close_price
            /\ market_data[i].volume = d.volume
            /\ market_data[i].turnover_rate = d.turnover_rate
            /\ d.pe_ratio # None => market_data[i].pe_ratio = d.pe_ratio
            /\ d.pb_ratio # None => market_data[i].pb_ratio = d.pb_ratio
            /\ d.eps_forecast # None => market_data[i].eps_forecast = d.eps_forecast
            /\ (d.market_cap # None /\ d.market_cap > 0)
                    => market_data[i].market_cap = d.market_cap

\* the second run overwrote a record that held the first response's price
C3_Witness ==
    /\ SecondResponseDiffers
    /\ Truthy(last.today_fetched[1].close_price)
    /\ FindRecord(last.pre, last.asset, last.today) # None
    /\ last.pre[FindRecord(last.pre, last.asset, last.today)].close_price
            = last.prev_fetched[1].close_price
    /\ last.today_fetched[1].close_price # last.prev_fetched[1].close_price
    /\ market_data[FindRecord(market_data, last.asset, last.today)].close_price
            = last.today_fetched[1].close_price

\* C3 (as stated): the stored record matches the second response in price,
\* volume, turnover rate and every fundamental the response carries.
C3_MatchesSecondResponse ==
    SecondResponseDiffers =>
        LET i == FindRecord(market_data, last.asset, last.today)
            d == last.today_fetched[1]
        IN  /\ i # None
            /\ market_data[i].close_price = d.close_price
            /\ market_data[i].volume = d.volume
            /\ market_data[i].turnover_rate = d.turnover_rate
            /\ d.pe_ratio # None => market_data[i].pe_ratio = d.pe_ratio
            /\ d.pb_ratio # None => market_data[i].pb_ratio = d.pb_ratio
            /\ d.eps_forecast # None => market_data[i].eps_forecast = d.eps_forecast
            /\ d.market_cap # None => market_data[i].market_cap = d.market_cap

TodayUnusable == last.today_fetched = << >> \/ ~Truthy(last.today_fetched[1].close_price)

\* C4 (as stated): after a run for an instrument with a record dated before
\* today, a record dated today exists, and when the today fetch yielded
\* nothing usable it has the close price and fundamentals of the most recent
\* record dated before today.
C4_TodayRecordAlwaysExists ==
    (last.op = "update" /\ LatestBefore(last.pre, last.asset, last.today) # None) =>
        LET i == FindRecord(market_data, last.asset, last.today)
            j == LatestBefore(last.pre, last.asset, last.today)
        IN  /\ i # None
            /\ TodayUnusable =>
                /\ market_data[i].close_price = last.pre[j].close_price
                /\ market_data[i].pe_ratio = last.pre[j].pe_ratio
                /\ market_data[i].pb_ratio = last.pre[j].pb_ratio
                /\ market_data[i].market_cap = last.pre[j].market_cap
                /\ market_data[i].eps_forecast = last.pre[j].eps_forecast

RECURSIVE ScanWindow(_, _)
\* the trading days the scan of lines 2366-2402 looks at, newest first
ScanWindow(check_date, days_checked) ==
    IF ~(check_date >= BASELINE_DATE /\ days_checked < MAX_BACKTRACK_DAYS) THEN << >>
    ELSE IF ~is_trading_day(check_date) THEN ScanWindow(check_date - 1, days_checked)
    ELSE <<check_date>> \o ScanWindow(check_date - 1, days_checked + 1)

WindowStored(rows, a, day) ==
    \A d \in Range(ScanWindow(day - 1, 0)) :
        LET i == FindRecord(rows, a, d) IN i # None /\ rows[i].close_price # None

WindowComplete(rows, a, day) ==
    \A d \in Range(ScanWindow(day - 1, 0)) :
        LET i == FindRecord(rows, a, d)
        IN  i # None /\ rows[i].close_price # None /\ Truthy(rows[i].pe_ratio)
                     /\ Truthy(rows[i].pb_ratio)

C6_NoWeekendProviderCalls ==
    last.op = "update" =>
        /\ \A i \in ProviderCalls(AllCalls(last)) :
                ~(AllCalls(last)[i].start_date < last.today
                  /\ ~is_trading_day(AllCalls(last)[i].start_date))
        /\ \A d \in BASELINE_DATE..(last.today - 1) :
                ~is_trading_day(d) =>
                    {last.pre[i] : i \in RecordsOf(last.pre, last.asset, d)}
                        = {market_data[i] : i \in RecordsOf(market_data, last.asset, d)}

\* the provider gave nothing for the day, or a bar that carries no fundamentals
NoFundamentals(fetched) ==
    \/ fetched = << >>
    \/ /\ fetched[1].pe_ratio = None
       /\ fetched[1].pb_ratio = None
       /\ fetched[1].market_cap = None
       /\ fetched[1].eps_forecast = None

\* C8 (as stated): after an update, every historical day that had a record with
\* a price and no P/E, for which the provider gave no fundamentals (a bar
\* without them, or no bar), has P/E = reference P/E * (day price / reference
\* price), P/B likewise when it was missing and the reference has one, and the
\* reference EPS, whenever the reference has a non-zero P/E and a positive price.
C8_MissingRatiosDerivedFromReference ==
    last.op = "update" =>
        \A k \in 1..Len(last.hist) :
            LET d == last.hist[k].date
                i == FindRecord(last.pre, last.asset, d)
                j == FindRecord(market_data, last.asset, d)
                ref == last.ref
            IN  (/\ i # None
                 /\ Truthy(last.pre[i].close_price)
                 /\ ~has_pe(last.pre[i])
                 /\ Truthy(ref.pe) /\ Truthy(ref.price) /\ ref.price > 0
                 /\ NoFundamentals(last.hist[k].fetched))
                =>
                (/\ j # None
                 /\ market_data[j].pe_ratio
                        = MulDiv(ref.pe, last.pre[i].close_price, ref.price)
                 /\ (~has_pb(last.pre[i]) /\ Truthy(ref.pb))
                        => market_data[j].pb_ratio
                              = MulDiv(ref.pb, last.pre[i].close_price, ref.price)
                 /\ Truthy(ref.eps) => market_data[j].eps_forecast = ref.eps)

\* ---------------------------------------------------- the router by itself
\* fetch_asset_data called directly, over the code formats the docstrings list
FetchCodes ==
    {Chars("SH") \o Chars("601727"), Chars("601727") \o Chars(".SH"),
     Chars("SH.") \o Chars("601727"), Chars("601727"),
     Chars("300857") \o Chars(".SZ"), Chars("AAPL")}

DomesticEquityCodes == FetchCodes \ {Chars("AAPL")}

FetchProvStates ==
    ProvStates \cup {Prov(FALSE, 0, "zero", "ratelimit", "ok", "ok"),
                     Prov(FALSE, 0, "full", "ratelimit", "empty", "ok"),
                     Prov(FALSE, 0, "zero", "error", "error", "empty")}

InitFetch ==
    /\ today = MaxDay
    /\ prov \in FetchProvStates
    /\ market_data \in {<< >>,
                        <<Record(1, Row(MaxDay - 4, Close(MaxDay - 4), Vol(MaxDay - 4),
                                        None, None, None, None, None))>>}
    /\ baseline = [a \in ListedAssets |-> None]
    /\ last = [NoLast EXCEPT !.prov = prov]
    /\ fin = FetchIdle
    /\ fout = << >>
    /\ rankings = << >>
    /\ rk = RankIdle
    /\ tasks = << >>
    /\ worker = << >>

FetchRun(code, asset_type, start_date, end_date) ==
    /\ fin' = [code |-> code, asset_type |-> asset_type, start_date |-> start_date,
               end_date |-> end_date]
    /\ fout' = <<fetch_asset_data(code, asset_type, start_date, end_date, TRUE, market_data)>>
    /\ UNCHANGED <<today, prov, market_data, baseline, last, rankings, rk, tasks, worker>>

\* the providers change their behaviour; the next call is a new one
FetchProviderChange ==
    /\ \E p \in FetchProvStates \ {prov} : prov' = p
    /\ fin' = FetchIdle
    /\ fout' = << >>
    /\ UNCHANGED <<today, market_data, baseline, last, rankings, rk, tasks, worker>>

NextFetch ==
    \/ \E code \in FetchCodes, asset_type \in {"stock", "fund"},
          start_date \in (MaxDay - 2)..MaxDay, span \in 0..1 :
            FetchRun(code, asset_type, start_date, start_date + span)
    \/ \E start_date \in {MaxDay - 1, MaxDay} :
            FetchRun(Chars("SH.") \o Chars("601727"), "forex", start_date, start_date)
    \/ \E dates \in {<<BadDate, MaxDay>>, <<MaxDay, BadDate>>} :
            FetchRun(Chars("SH.") \o Chars("601727"), "stock", dates[1], dates[2])
    \/ FetchProviderChange

SpecFetch == InitFetch /\ [][NextFetch]_vars

FirstCall(calls, api) ==
    FirstIn({i \in 1..Len(calls) : calls[i].api = api})

\* C7 (as stated): for a domestic-equity code in any accepted format, when the
\* primary provider's call raises the rate-limit error during fetch_asset_data,
\* the aggregator (fetch_stock_data_akshare) is called next, and the rows
\* returned are the aggregator's when it has data.
C7_RateLimitFallsBackToAggregator ==
    (/\ fout # << >>
     /\ fin.asset_type = "stock"
     /\ fin.code \in DomesticEquityCodes
     /\ prov.yf = "ratelimit"
     /\ FirstCall(fout[1].calls, "yf_history") # None) =>
        LET calls == fout[1].calls
            ak == AkHistory(Chars("601727"), fin.start_date,
                            apply_date_span_patch(fin.start_date, fin.end_date)[2])
        IN  /\ \E j \in 1..Len(calls) :
                    /\ calls[j].api = "ak_stock_zh_a_hist"
                    /\ j > FirstCall(calls, "yf_history")
            /\ (prov.ak = "ok" /\ ak.df # << >>) => fout[1].rows # << >>

\* ----------------------------------------------------- the ranking service
\* services/ranking.py is the module api/routes.py imports;
\* services/ranking_calculator.py is the one services/data_storage.py imports.
\* A rate is kept in hundredths of a percent.
calculate_change_rate(current_price, baseline_price) ==
    IF baseline_price = None \/ baseline_price = 0 THEN 0
    ELSE MulDiv(current_price - baseline_price, 10000, baseline_price)

\* ...filter(asset_id == a, date >= d).order_by(date.asc()).first(): index or None
FirstOnOrAfter(rows, a, d) ==
    LET S == {i \in 1..Len(rows) : rows[i].asset_id = a /\ rows[i].date >= d}
    IN  IF S = {} THEN None
        ELSE CHOOSE i \in S : \A j \in S :
                rows[i].date < rows[j].date \/ (rows[i].date = rows[j].date /\ i <= j)

\* services/ranking_calculator.py: the baseline date only
calculator_get_or_set_baseline_price(a, rows, base) ==
    LET baseline_data == FindRecord(rows, a, BASELINE_DATE)
    IN  IF base[a] # None THEN base[a]
        ELSE IF baseline_data # None THEN rows[baseline_data].close_price
        ELSE None

\* the resolution that stops at the baseline date
baseline_date_price_only(a, rows, base) ==
    IF base[a] # None THEN base[a]
    ELSE IF FindRecord(rows, a, BASELINE_DATE) # None
    THEN rows[FindRecord(rows, a, BASELINE_DATE)].close_price
    ELSE None

\* services/ranking.py: the price returned is also the one left on the asset
get_or_set_baseline_price(a, rows, base) ==
    LET baseline_data == FindRecord(rows, a, BASELINE_DATE)
        next_data == FirstOnOrAfter(rows, a, BASELINE_DATE)
    IN  IF base[a] # None THEN base[a]
        ELSE IF baseline_data # None THEN rows[baseline_data].close_price
        ELSE IF next_data # None THEN rows[next_data].close_price
        ELSE None

\* db.query(Asset).join(User).filter(User.is_active == True).all(), by id
AssetSeq == [i \in 1..Cardinality(AssetIds) |-> i]
ActiveAssets(active) == SelectSeq(AssetSeq, LAMBDA a : active[Assets[a].user_id])

RECURSIVE InsertByRate(_, _)
\* x goes behind every item whose rate is not lower: list.sort(reverse=True) is stable
InsertByRate(sorted, x) ==
    IF sorted = << >> THEN <<x>>
    ELSE IF Head(sorted).change_rate >= x.change_rate
    THEN <<Head(sorted)>> \o InsertByRate(Tail(sorted), x)
    ELSE <<x>> \o sorted

RECURSIVE SortByRateDesc(_)
SortByRateDesc(items) ==
    IF items = << >> THEN << >>
    ELSE InsertByRate(SortByRateDesc(SubSeq(items, 1, Len(items) - 1)), items[Len(items)])

\* for idx, item in enumerate(...): item["rank"] = idx + 1
WithRank(items) == [i \in 1..Len(items) |-> [items[i] EXCEPT !.rank = i]]

\* services/ranking.py lines 66-118, one asset: st = [base, with_rate, without_rate]
AssetRankingStep(a, target_date, rows, st) ==
    LET market_data_ == LatestBefore(rows, a, target_date + 1)
        Item(rate, current_price, baseline_price, has_baseline, has_current_data) ==
            [asset_id |-> a, user_id |-> Assets[a].user_id, change_rate |-> rate,
             current_price |-> current_price, baseline_price |-> baseline_price,
             has_baseline |-> has_baseline, has_current_data |-> has_current_data,
             rank |-> None]
        Rated(baseline_price, current_price) ==
            IF baseline_price = None \/ baseline_price = 0
            THEN [st EXCEPT !.base[a] = baseline_price,
                            !.without_rate =
                                Append(@, Item(None, current_price, None, FALSE, TRUE))]
            ELSE [st EXCEPT !.base[a] = baseline_price,
                            !.with_rate =
                                Append(@, Item(calculate_change_rate(current_price,
                                                                     baseline_price),
                                               current_price, baseline_price, TRUE, TRUE))]
    IN  IF market_data_ = None
        THEN [st EXCEPT !.without_rate = Append(@, Item(None, None, None, FALSE, FALSE))]
        ELSE Rated(get_or_set_baseline_price(a, rows, st.base),
                   rows[market_data_].close_price)

RECURSIVE AssetRankingLoop(_, _, _, _)
AssetRankingLoop(assets, target_date, rows, st) ==
    IF assets = << >> THEN st
    ELSE AssetRankingLoop(Tail(assets), target_date, rows,
                          AssetRankingStep(Head(assets), target_date, rows, st))

\* services/ranking.py: the list returned, and the baselines left on the assets
calculate_asset_rankings(target_date, rows, base, active) ==
    LET Merge(st) ==
            [out |-> WithRank(SortByRateDesc(st.with_rate)) \o st.without_rate,
             base |-> st.base]
    IN  Merge(AssetRankingLoop(ActiveAssets(active), target_date, rows,
                               [base |-> base, with_rate |-> << >>, without_rate |-> << >>]))

\* services/ranking_calculator.py lines 50-72, one asset: st = [base, rankings_data]
CalculatorRankingStep(a, target_date, rows, st) ==
    LET market_data_ == FindRecord(rows, a, target_date)
        Rated(baseline_price) ==
            IF baseline_price = None THEN st
            ELSE IF market_data_ = None THEN [st EXCEPT !.base[a] = baseline_price]
            ELSE [st EXCEPT
                    !.base[a] = baseline_price,
                    !.rankings_data =
                        Append(@, [asset_id |-> a, user_id |-> Assets[a].user_id,
                                   change_rate |->
                                       calculate_change_rate(rows[market_data_].close_price,
                                                             baseline_price),
                                   rank |-> None])]
    IN  Rated(calculator_get_or_set_baseline_price(a, rows, st.base))

RECURSIVE CalculatorRankingLoop(_, _, _, _)
CalculatorRankingLoop(assets, target_date, rows, st) ==
    IF assets = << >> THEN st
    ELSE CalculatorRankingLoop(Tail(assets), target_date, rows,
                               CalculatorRankingStep(Head(assets), target_date, rows, st))

\* services/ranking_calculator.py: calculate_asset_rankings
calculator_calculate_asset_rankings(target_date, rows, base, active) ==
    LET Merge(st) == [out |-> WithRank(SortByRateDesc(st.rankings_data)), base |-> st.base]
    IN  Merge(CalculatorRankingLoop(ActiveAssets(active), target_date, rows,
                                    [base |-> base, rankings_data |-> << >>]))

\* db.query(User).filter(User.is_active == True).all(), by id
UserSeq == [i \in 1..Cardinality(DOMAIN Users) |-> i]
ActiveUsers(active) == SelectSeq(UserSeq, LAMBDA u : active[u])

\* db.query(Asset).filter(Asset.user_id == u).all(), by id
AssetsOfUser(u) == SelectSeq(AssetSeq, LAMBDA a : Assets[a].user_id = u)

\* services/ranking.py lines 151-170, one asset of the user: st = [base, rate, asset]
UserBestStep(a, target_date, rows, st) ==
    LET market_data_ == LatestBefore(rows, a, target_date + 1)
        Rated(baseline_price, change_rate) ==
            IF baseline_price = None \/ baseline_price = 0
            THEN [st EXCEPT !.base[a] = baseline_price]
            ELSE IF st.rate = None \/ change_rate > st.rate
            THEN [st EXCEPT !.base[a] = baseline_price, !.rate = change_rate, !.asset = a]
            ELSE [st EXCEPT !.base[a] = baseline_price]
    IN  IF market_data_ = None THEN st
        ELSE Rated(get_or_set_baseline_price(a, rows, st.base),
                   calculate_change_rate(rows[market_data_].close_price,
                                         get_or_set_baseline_price(a, rows, st.base)))

RECURSIVE UserBestLoop(_, _, _, _)
UserBestLoop(assets, target_date, rows, st) ==
    IF assets = << >> THEN st
    ELSE UserBestLoop(Tail(assets), target_date, rows,
                      UserBestStep(Head(assets), target_date, rows, st))

RECURSIVE UserRankingLoop(_, _, _, _)
\* lines 143-186: st = [base, with_rate, without_rate]
UserRankingLoop(users, target_date, rows, st) ==
    IF users = << >> THEN st
    ELSE LET user == Head(users)
             Item(b) == [user_id |-> user, change_rate |-> b.rate,
                         best_asset_id |-> b.asset, rank |-> None]
             Next_(b) ==
                 UserRankingLoop(Tail(users), target_date, rows,
                     IF b.rate # None
                     THEN [st EXCEPT !.base = b.base, !.with_rate = Append(@, Item(b))]
                     ELSE [st EXCEPT !.base = b.base, !.without_rate = Append(@, Item(b))])
         IN  Next_(UserBestLoop(AssetsOfUser(user), target_date, rows,
                                [base |-> st.base, rate |-> None, asset |-> None]))

calculate_user_rankings(target_date, rows, base, active) ==
    LET Merge(st) ==
            [out |-> WithRank(SortByRateDesc(st.with_rate)) \o st.without_rate,
             base |-> st.base]
    IN  Merge(UserRankingLoop(ActiveUsers(active), target_date, rows,
                              [base |-> base, with_rate |-> << >>, without_rate |-> << >>]))

\* a row of table rankings
Ranking(d, a, u, asset_rank, user_rank, change_rate, rank_type) ==
    [date |-> d, asset_id |-> a, user_id |-> u, asset_rank |-> asset_rank,
     user_rank |-> user_rank, change_rate |-> change_rate, rank_type |-> rank_type]

RECURSIVE UserRankingRows(_, _)
\* lines 225-237: one row per asset of each ranked user
UserRankingRows(target_date, items) ==
    IF items = << >> THEN << >>
    ELSE LET item == Head(items)
             user_assets == AssetsOfUser(item.user_id)
         IN  [i \in 1..Len(user_assets) |->
                Ranking(target_date, user_assets[i], item.user_id, None, item.rank,
                        item.change_rate, "user_rank")]
             \o UserRankingRows(target_date, Tail(items))

\* services/ranking.py: save_rankings when the session works; table is rankings
save_rankings(target_date, rows, base, active, table) ==
    LET AssetRows(items) ==
            [i \in 1..Len(items) |->
                Ranking(target_date, items[i].asset_id, items[i].user_id, items[i].rank,
                        None, items[i].change_rate, "asset_rank")]
        Saved(ar, ur) ==
            [rankings |-> SelectSeq(table, LAMBDA r : r.date # target_date)
                          \o AssetRows(ar.out) \o UserRankingRows(target_date, ur.out),
             base |-> ur.base]
    IN  Saved(calculate_asset_rankings(target_date, rows, base, active),
              calculate_user_rankings(target_date, rows,
                  calculate_asset_rankings(target_date, rows, base, active).base, active))

\* services/ranking.py: save_rankings when a statement of it raises, at the
\* DELETE of line 207 (point "delete") or once calculate_asset_rankings has
\* returned (point "user_rankings": a query of calculate_user_rankings, or
\* the commit of line 239).  The handler of lines 241-244 rolls back, and
\* what get_or_set_baseline_price committed before (lines 35 and 49) stays:
\* the baseline prices, and the DELETE issued in the same transaction.
save_rankings_failed(target_date, rows, base, active, table, point) ==
    LET After(ar) ==
            IF ar.base # base
            THEN [rankings |-> SelectSeq(table, LAMBDA r : r.date # target_date),
                  base |-> ar.base]
            ELSE [rankings |-> table, base |-> base]
    IN  IF point = "delete" THEN [rankings |-> table, base |-> base]
        ELSE After(calculate_asset_rankings(target_date, rows, base, active))

SaveFailurePoints == {"delete", "user_rankings"}

\* ---------------------------------------------------- the ranking by itself
\* stored closes for the ranking runs: on the baseline date, one and two days on
RankRecord(a, d, close) == Record(a, Row(d, close, Vol(d), None, None, None, None, None))

RankRowsOf(a) ==
    {<< >>, <<RankRecord(a, BASELINE_DATE, 10000)>>}
    \cup {<<RankRecord(a, BASELINE_DATE + 2, p)>> : p \in {5000, 10000}}
    \cup {<<RankRecord(a, BASELINE_DATE, 10000), RankRecord(a, BASELINE_DATE + 2, p)>> :
            p \in {5000, 10000}}
    \cup {<<RankRecord(a, BASELINE_DATE, 10000), RankRecord(a, BASELINE_DATE + 1, 11000)>>,
          <<RankRecord(a, BASELINE_DATE + 2, 5000), RankRecord(a, BASELINE_DATE + 1, 11000)>>}

RankStores == {r1 \o r2 : r1 \in RankRowsOf(1), r2 \in RankRowsOf(2)}

RankDates == {BASELINE_DATE + 1, BASELINE_DATE + 2}

InitRank ==
    /\ today = MaxDay
    /\ prov = Prov(FALSE, 0, "zero", "empty", "empty", "empty")
    /\ market_data \in RankStores
    /\ baseline \in [ListedAssets -> {None, 0, 10000}]
    /\ last = [NoLast EXCEPT !.prov = prov]
    /\ fin = FetchIdle
    /\ fout = << >>
    /\ rankings = << >>
    /\ rk \in {[RankIdle EXCEPT !.active = f] : f \in [DOMAIN Users -> BOOLEAN]}
    /\ tasks = << >>
    /\ worker = << >>

\* services/ranking.py calculate_asset_rankings(target_date, db)
AssetRankings(target_date) ==
    LET Done(r) ==
            /\ baseline' = r.base
            /\ rk' = [rk EXCEPT !.fn = "ranking", !.target_date = target_date, !.out = r.out]
    IN  /\ last.n < MaxOps
        /\ Done(calculate_asset_rankings(target_date, market_data, baseline, rk.active))
        /\ last' = [last EXCEPT !.n = @ + 1]
        /\ UNCHANGED <<today, prov, market_data, fin, fout, rankings, tasks, worker>>

\* services/ranking_calculator.py calculate_asset_rankings(target_date, db)
CalculatorAssetRankings(target_date) ==
    LET Done(r) ==
            /\ baseline' = r.base
            /\ rk' = [rk EXCEPT !.fn = "ranking_calculator", !.target_date = target_date,
                                !.out = r.out]
    IN  /\ last.n < MaxOps
        /\ Done(calculator_calculate_asset_rankings(target_date, market_data, baseline,
                                                    rk.active))
        /\ last' = [last EXCEPT !.n = @ + 1]
        /\ UNCHANGED <<today, prov, market_data, fin, fout, rankings, tasks, worker>>

\* services/ranking.py save_rankings(target_date, db)
SaveRankings(target_date) ==
    LET Done(r, ret) ==
            /\ baseline' = r.base
            /\ rankings' = r.rankings
            /\ rk' = [rk EXCEPT !.fn = "save_rankings", !.target_date = target_date,
                                !.out = << >>, !.ret = ret, !.pre = rankings]
    IN  /\ last.n < MaxOps
        /\ \/ Done(save_rankings(target_date, market_data, baseline, rk.active, rankings),
                    "true")
           \/ \E point \in SaveFailurePoints :
                Done(save_rankings_failed(target_date, market_data, baseline, rk.active,
                                          rankings, point), "false")
        /\ last' = [last EXCEPT !.n = @ + 1]
        /\ UNCHANGED <<today, prov, market_data, fin, fout, tasks, worker>>

NextRank ==
    \/ \E d \in RankDates : AssetRankings(d)
    \/ \E d \in RankDates : CalculatorAssetRankings(d)
    \/ \E d \in RankDates : SaveRankings(d)

SpecRank == InitRank /\ [][NextRank]_vars

\* no baseline to measure against: none or zero on the asset after the run, or
\* no stored close on or before the target date
NoUsableBaseline(a) ==
    \/ baseline[a] = None
    \/ baseline[a] = 0
    \/ LatestBefore(market_data, a, rk.target_date + 1) = None

\* C9 (as stated): calculate_asset_rankings returns exactly one entry for every
\* instrument of an active user and none for the others; an instrument with no
\* usable baseline has change_rate null and rank null; and every entry without
\* a rate stands behind every entry with one.
C9_EveryInstrumentRanked ==
    rk.fn \in {"ranking", "ranking_calculator"} =>
        /\ \A a \in Range(ActiveAssets(rk.active)) :
                Cardinality({i \in 1..Len(rk.out) : rk.out[i].asset_id = a}) = 1
        /\ \A i \in 1..Len(rk.out) :
                /\ rk.out[i].asset_id \in Range(ActiveAssets(rk.active))
                /\ NoUsableBaseline(rk.out[i].asset_id) =>
                        (rk.out[i].change_rate = None /\ rk.out[i].rank = None)
        /\ \A i, j \in 1..Len(rk.out) :
                (rk.out[i].change_rate # None /\ rk.out[j].change_rate = None) => i < j

\* ------------------------------------------------------- the update jobs
\* api/routes.py: tasks is the in-memory dict, a job id is its position in it;
\* error_msg "" and result.present FALSE stand for Python's None.  A result
\* is the dict run_update_task builds: its list of per-asset entries
\* ("results", or "details" in a job over every asset) and, when the dict
\* has them (counts.present), its keys "total", "success" and "failed"
create_task(ts) ==
    Append(ts, [status |-> "processing", progress |-> [completed |-> 0, total |-> 0],
                error_msg |-> "",
                result |-> [present |-> FALSE, results |-> << >>,
                            counts |-> [present |-> FALSE, total |-> 0, success |-> 0,
                                        failed |-> 0]]])

update_task_progress(ts, task_id, completed, total) ==
    IF task_id \in DOMAIN ts
    THEN [ts EXCEPT ![task_id].progress = [completed |-> completed, total |-> total]]
    ELSE ts

\* complete_task that stores the result and leaves the status as it is
complete_task_keeps_status(ts, task_id, result) ==
    IF task_id \in DOMAIN ts
    THEN [ts EXCEPT ![task_id].result = [present |-> TRUE, results |-> result.results,
                                         counts |-> result.counts]]
    ELSE ts

complete_task(ts, task_id, result) ==
    IF task_id \in DOMAIN ts
    THEN [ts EXCEPT ![task_id].status = "success",
                    ![task_id].result = [present |-> TRUE, results |-> result.results,
                                         counts |-> result.counts]]
    ELSE ts

fail_task(ts, task_id, error_msg) ==
    IF task_id \in DOMAIN ts
    THEN [ts EXCEPT ![task_id].status = "failed", ![task_id].error_msg = error_msg]
    ELSE ts

\* request.asset_ids: empty stands for null or [] (every asset); 3 is no asset
TaskRequests == {<< >>, <<1>>, <<2, 1>>, <<3>>}

\* trigger_update: the job is created and run_update_task is handed to the
\* background tasks of the response
trigger_update(asset_ids) ==
    /\ Len(tasks) < MaxTasks
    /\ tasks' = create_task(tasks)
    /\ worker' = Append(worker, [pc |-> "scheduled", asset_ids |-> asset_ids,
                                 todo |-> << >>, results |-> << >>,
                                 session |-> "ok", blocked |-> << >>,
                                 events |-> << >>])
    /\ UNCHANGED <<today, prov, market_data, baseline, last, fin, fout, rankings, rk>>

\* run_update_task lines 997-1000 and 1043-1048: the branch is chosen and the
\* total is set; db.query(Asset).all() sits outside the inner try blocks
WorkerStart(t) ==
    /\ t \in DOMAIN worker
    /\ worker[t].pc = "scheduled"
    /\ \/ /\ worker[t].asset_ids # << >>
          /\ tasks' = update_task_progress(tasks, t, 0, Len(worker[t].asset_ids))
          /\ worker' = [worker EXCEPT ![t].pc = "assets", ![t].todo = worker[t].asset_ids]
       \/ /\ worker[t].asset_ids = << >>
          /\ tasks' = update_task_progress(tasks, t, 0, Len(AssetSeq))
          /\ worker' = [worker EXCEPT ![t].pc = "assets", ![t].todo = AssetSeq]
       \/ /\ worker[t].asset_ids = << >>
          /\ tasks' = fail_task(tasks, t, "OperationalError")
          /\ worker' = [worker EXCEPT ![t].pc = "done"]
    /\ UNCHANGED <<today, prov, market_data, baseline, last, fin, fout, rankings, rk>>

\* One turn of the loop over the assets (lines 1003-1025 and 1060-1091):
\* update_asset_data, then update_task_progress.  worker[t].session is the
\* state of the job's one database session, worker[t].events what the loop
\* has done so far (it has no time.sleep).  update_asset_data raises only
\* from its statements outside a try block, the queries of lines 2150-2183 and
\* 2379-2382 of services/market_data.py: the handlers of lines 1011 and 1073 record a
\* failed entry and issue no rollback, so the transaction of the session
\* stays failed and the first query of every later update_asset_data raises
\* as well.  blocked keeps the assets whose update raised for that reason.
WorkerAsset(t) ==
    /\ t \in DOMAIN worker
    /\ worker[t].pc = "assets"
    /\ worker[t].todo # << >>
    /\ LET asset_id == Head(worker[t].todo)
           total == tasks[t].progress.total
           idx == total - Len(worker[t].todo) + 1
           Turn(success, session, blocked) ==
               /\ tasks' = update_task_progress(tasks, t, idx, total)
               /\ worker' = [worker EXCEPT
                               ![t].todo = Tail(@),
                               ![t].results = Append(@, [asset_id |-> asset_id,
                                                         success |-> success]),
                               ![t].session = session,
                               ![t].events = Append(@, "update"),
                               ![t].blocked = IF blocked THEN Append(@, asset_id) ELSE @,
                               ![t].pc = IF Len(worker[t].todo) = 1 THEN "rankings"
                                         ELSE "assets"]
       IN  \/ /\ worker[t].session = "failed"
              /\ UNCHANGED market_data
              /\ Turn(FALSE, "failed", TRUE)
           \/ /\ worker[t].session = "ok"
              /\ UNCHANGED market_data
              /\ \/ Turn(FALSE, "failed", FALSE)
                 \/ Turn(FALSE, "ok", FALSE)
           \/ /\ worker[t].session = "ok"
              /\ asset_id \in AssetIds
              /\ market_data' = update_asset_data(asset_id).rows
              /\ Turn(TRUE, "ok", FALSE)
    /\ UNCHANGED <<today, prov, baseline, last, fin, fout, rankings, rk>>

\* save_rankings(today, db); a failure is caught inside it and False is
\* returned.  On a failed session its first statement raises.
WorkerRankings(t) ==
    /\ t \in DOMAIN worker
    /\ worker[t].pc = "rankings"
    /\ LET Saved(r, ret) ==
               /\ rankings' = r.rankings
               /\ baseline' = r.base
               /\ rk' = [rk EXCEPT !.fn = "save_rankings", !.target_date = today,
                                   !.out = << >>, !.ret = ret, !.pre = rankings]
       IN  \/ Saved([rankings |-> rankings, base |-> baseline], "false")
           \/ /\ worker[t].session = "ok"
              /\ \/ Saved(save_rankings(today, market_data, baseline, rk.active, rankings),
                          "true")
                 \/ Saved(save_rankings_failed(today, market_data, baseline, rk.active,
                                               rankings, "user_rankings"), "false")
    /\ worker' = [worker EXCEPT ![t].pc = "complete", ![t].session = "ok"]
    /\ UNCHANGED <<today, prov, market_data, last, fin, fout, tasks>>

\* complete_task(task_id, result), the last statement of either branch: the
\* result of lines 1037-1040 is {"message", "results"}, that of lines
\* 1115-1118 {"message", "total", "success", "failed", "details"}
WorkerComplete(t) ==
    /\ t \in DOMAIN worker
    /\ worker[t].pc = "complete"
    /\ LET results == worker[t].results
           succeeded == {i \in 1..Len(results) : results[i].success}
       IN  tasks' = complete_task(tasks, t,
                [results |-> results,
                 counts |-> IF worker[t].asset_ids # << >>
                            THEN [present |-> FALSE, total |-> 0, success |-> 0,
                                  failed |-> 0]
                            ELSE [present |-> TRUE, total |-> tasks[t].progress.total,
                                  success |-> Cardinality(succeeded),
                                  failed |-> Len(results) - Cardinality(succeeded)]])
    /\ worker' = [worker EXCEPT ![t].pc = "done"]
    /\ UNCHANGED <<today, prov, market_data, baseline, last, fin, fout, rankings, rk>>

\* run_update_task(task_id, asset_ids, force), a statement at a time
Worker(t) == WorkerStart(t) \/ WorkerAsset(t) \/ WorkerRankings(t) \/ WorkerComplete(t)

InitTask ==
    /\ today = MaxDay
    /\ prov \in {Prov(TRUE, 7500, "full", "ok", "ok", "ok"),
                 Prov(FALSE, 0, "zero", "empty", "empty", "empty")}
    /\ market_data = << >>
    /\ baseline = [a \in ListedAssets |-> None]
    /\ last = [NoLast EXCEPT !.prov = prov]
    /\ fin = FetchIdle
    /\ fout = << >>
    /\ rankings = << >>
    /\ rk = RankIdle
    /\ tasks = << >>
    /\ worker = << >>

NextTask ==
    \/ \E asset_ids \in TaskRequests : trigger_update(asset_ids)
    \/ \E t \in 1..MaxTasks : Worker(t)

SpecTask == InitTask /\ [][NextTask]_vars

\* the background task of a response is run, and a statement of it that can
\* run does run
SpecTaskFair == SpecTask /\ \A t \in 1..MaxTasks : WF_vars(Worker(t))

TerminalStatus == {"success", "failed"}

\* C10: a job has status processing when it is created, every job reaches a
\* terminal status (success or failed), and a terminal status never changes.
C10_TaskLifecycle ==
    /\ [][\A t \in DOMAIN tasks' \ DOMAIN tasks : tasks'[t].status = "processing"]_vars
    /\ \A t \in 1..MaxTasks :
            [](t \in DOMAIN tasks =>
                    <>(t \in DOMAIN tasks /\ tasks[t].status \in TerminalStatus))
    /\ [][\A t \in DOMAIN tasks :
            tasks[t].status \in TerminalStatus =>
                (t \in DOMAIN tasks' /\ tasks'[t].status = tasks[t].status)]_vars

\* one job has ended in success with every asset processed, another has failed
C10_Witness ==
    \E t, u \in DOMAIN tasks :
        /\ tasks[t].status = "success"
        /\ tasks[t].progress.total > 0
        /\ tasks[t].progress.completed = tasks[t].progress.total
        /\ worker[t].pc = "done"
        /\ tasks[u].status = "failed"
        /\ worker[u].pc = "done"

\* the instruments a job was asked for: the ids of the request, or every asset
Requested(t) == IF worker[t].asset_ids = << >> THEN AssetSeq ELSE worker[t].asset_ids

\* C11 (as stated): in a job that has run to its end, the result has exactly one
\* entry for every requested instrument, in processing order, and no
\* instrument was kept from being updated by the failure of an earlier one.
C11_FailureNeverStopsTheRest ==
    \A t \in DOMAIN tasks :
        tasks[t].status = "success" =>
            /\ [i \in 1..Len(tasks[t].result.results) |->
                    tasks[t].result.results[i].asset_id] = Requested(t)
            /\ worker[t].blocked = << >>

\* the request of the last fetch_asset_data call had a date that does not parse
FetchBadDate == fin.start_date = BadDate \/ fin.end_date = BadDate

FetchUnsupported == fin.asset_type \notin {"stock", "fund", "futures"}

\* the provider of the route raised (no rate-limit error) or gave nothing
FetchProviderFailed ==
    \/ fin.asset_type = "stock" /\ prov.yf \in {"error", "empty"}
    \/ fin.asset_type = "fund" /\ prov.ak \in {"error", "empty"}

\* the range of the request, after the one-day extension, ends today
FetchEndsToday ==
    ~FetchBadDate /\ apply_date_span_patch(fin.start_date, fin.end_date)[2] = today

\* C12 (amended): fetch_asset_data never raises; it returns an empty list for
\* a date that does not parse, for an unsupported instrument class, and when
\* the provider of the route raised (no rate-limit error) or gave nothing,
\* unless the request is a stock request whose range ends today: there the
\* fallback chain answers first, and the list is empty when no provider has
\* a quote or a bar and the store is empty.
C12_FetchNeverRaises ==
    fout # << >> =>
        /\ fout[1].exc = "none"
        /\ (FetchBadDate \/ FetchUnsupported) => fout[1].rows = << >>
        /\ (/\ ~FetchBadDate
            /\ FetchProviderFailed
            /\ \/ fin.asset_type = "fund"
               \/ ~FetchEndsToday
               \/ /\ prov.ak \in {"error", "empty"}
                  /\ prov.bs = "empty"
                  /\ prov.last_price = 0
                  /\ market_data = << >>) => fout[1].rows = << >>

\* the primary provider raised on a stock request for past days and the list
\* returned is empty; its call was made
C12_Witness ==
    /\ fout # << >>
    /\ fin.asset_type = "stock"
    /\ prov.yf = "error"
    /\ ~FetchBadDate
    /\ ~FetchEndsToday
    /\ fout[1].exc = "none"
    /\ fout[1].rows = << >>
    /\ \E i \in 1..Len(fout[1].calls) : fout[1].calls[i].api = "yf_history"

\* C12 (as stated): fetch_asset_data never raises, and returns an empty list
\* whenever the date does not parse, the class is unsupported, or the provider
\* raised (no rate-limit error) or gave nothing.
C12_EmptyOnEveryFailure ==
    fout # << >> =>
        /\ fout[1].exc = "none"
        /\ (FetchBadDate \/ FetchUnsupported \/ FetchProviderFailed) => fout[1].rows = << >>

\* the stored rankings of a date
RankingsOn(table, d) == SelectSeq(table, LAMBDA r : r.date = d)

\* C13 (as stated): after save_rankings(D) the stored rankings of D are the
\* newly computed set, one asset row per instrument of an active user, when
\* it returned true, and exactly the set stored before the call when it
\* returned false.
C13_SaveRankingsAllOrNothing ==
    rk.fn = "save_rankings" =>
        /\ rk.ret = "true" =>
                \A a \in Range(ActiveAssets(rk.active)) :
                    Cardinality({i \in 1..Len(rankings) :
                                    /\ rankings[i].date = rk.target_date
                                    /\ rankings[i].rank_type = "asset_rank"
                                    /\ rankings[i].asset_id = a}) = 1
        /\ rk.ret = "false" =>
                RankingsOn(rankings, rk.target_date) = RankingsOn(rk.pre, rk.target_date)

\* the payloads an upsert of (last.asset, d) was given by the last operation
UpsertPayloads(d) ==
    IF last.op = "store"
    THEN {last.batch[i] : i \in {j \in DOMAIN last.batch : last.batch[j].date = d}}
    ELSE IF last.op = "update" /\ d = last.today /\ last.today_fetched # << >>
            /\ Truthy(last.today_fetched[1].close_price)
    THEN {last.today_fetched[1]}
    ELSE {}

\* C14 (as stated): when store_market_data or the today step finds an
\* existing (instrument, date) record, the volume and the turnover rate that
\* every payload for it leaves null keep their existing non-null values.
C14_NullFieldsKeepStoredValue ==
    \A d \in 0..MaxDay :
        LET i == FindRecord(last.pre, last.asset, d)
            j == FindRecord(market_data, last.asset, d)
        IN  (last.op \in {"store", "update"} /\ i # None /\ UpsertPayloads(d) # {}) =>
                /\ j # None
                /\ (last.pre[i].volume # None
                        /\ \A data \in UpsertPayloads(d) : data.volume = None)
                    => market_data[j].volume = last.pre[i].volume
                /\ (last.pre[i].turnover_rate # None
                        /\ \A data \in UpsertPayloads(d) : data.turnover_rate = None)
                    => market_data[j].turnover_rate = last.pre[i].turnover_rate

\* the records of a store that are not keyed by (a, d), in stored order
OtherRecords(rows, a, d) ==
    SelectSeq(rows, LAMBDA r : ~(r.asset_id = a /\ r.date = d))

\* C15 (as stated): calibrate(instrument, date) changes no record other than
\* the one keyed by exactly that (instrument, date); when nothing was fetched
\* the store is unchanged.
C15_CalibrateTouchesOneRecord ==
    last.op = "calibrate" =>
        /\ OtherRecords(market_data, last.asset, last.target_date)
                = OtherRecords(last.pre, last.asset, last.target_date)
        /\ last.today_fetched = << >> => market_data = last.pre

\* ------------------------------------------------ the code helpers by themselves
\* the None a helper returns in place of a code
NoCode == <<"None">>

\* ak.futures_main_relation(symbol=base_symbol) of lines 604-619:
\*   "raises"         the call raises
\*   "none", "empty"  it returns None, or a frame without rows
\*   "no_column"      the frame has neither a main_contract nor a 合约 column
\*   "blank"          the last main_contract cell is None or ""
\*   "main_contract", "contract_zh"   the last cell of that column names a contract
MainRelations ==
    {"raises", "none", "empty", "no_column", "blank", "main_contract", "contract_zh"}

\* the contract the relation table names for a family
LiveContract(base_symbol) == base_symbol \o <<"2", "6", "1", "2">>

\* lines 580-597: the cleaned symbol, and the first prefix it starts with
FuturesBase(code) ==
    LET prefixes == <<"IF", "IC", "IM", "IH">>
        cleaned == Strip(Replace(Replace(Strip(Upper(code)), Chars("CF.")), Chars("=F")))
        symbol == IF cleaned # << >> /\ cleaned[Len(cleaned)] = "0"
                  THEN SubSeq(cleaned, 1, Len(cleaned) - 1) ELSE cleaned
        hit == {i \in 1..Len(prefixes) : StartsWith(symbol, Chars(prefixes[i]))}
    IN  IF hit = {} THEN NoCode ELSE Chars(prefixes[FirstIn(hit)])

\* the resolution without its first tier: the continuous-contract code always
resolve_by_mapping_only(code, AKSHARE_AVAILABLE, main_relation) ==
    IF ~AKSHARE_AVAILABLE THEN NoCode
    ELSE IF FuturesBase(code) = NoCode THEN NoCode
    ELSE FuturesBase(code) \o <<"8", "8">>

\* AKSHARE_AVAILABLE (lines 157-161) and the relation lookup are the environment
resolve_futures_main_contract(code, AKSHARE_AVAILABLE, main_relation) ==
    IF ~AKSHARE_AVAILABLE THEN NoCode
    ELSE IF FuturesBase(code) = NoCode THEN NoCode
    ELSE IF main_relation \in {"main_contract", "contract_zh"}
    THEN LiveContract(FuturesBase(code))
    ELSE FuturesBase(code) \o <<"8", "8">>

\* str.lower() on the letters that occur in codes
Lower(code) ==
    LET LowerChar(c) ==
            CASE c = "S" -> "s"
              [] c = "H" -> "h"
              [] c = "Z" -> "z"
              [] c = "C" -> "c"
              [] c = "F" -> "f"
              [] c = "I" -> "i"
              [] c = "M" -> "m"
              [] OTHER -> c
    IN  [i \in 1..Len(code) |-> LowerChar(code[i])]

\* the codes of the docstrings (lines 571-572, 640-641) and of other markets
FuturesCodes ==
    {Chars("IF0"), Chars("IF") \o Chars("=F"), Chars("CF.") \o Chars("IF0"),
     Chars("IC"), Chars("IM") \o <<"0">>, Chars("IH"), Lower(Chars("IF0")),
     Lower(Chars("CF.") \o Chars("IC")), <<" ">> \o Chars("IH") \o <<"0", " ">>,
     <<"A", "U", "0">>, <<"T", "0">>, Chars("601727"), Chars("AAPL"), << >>}

\* the 6-digit codes with their exchange
ShareCodes ==
    {[digits |-> Chars("601727"), market |-> Chars("SH")],
     [digits |-> Chars("300857"), market |-> Chars("SZ")],
     [digits |-> <<"0", "0", "0", "0", "0", "1">>, market |-> Chars("SZ")]}

\* the spellings of one code: prefix, dotted prefix, suffix, bare, and lower case
Spellings(c) ==
    LET upper == {c.market \o c.digits, c.market \o <<".">> \o c.digits,
                  c.digits \o <<".">> \o c.market, c.digits}
    IN  upper \cup {Lower(code) : code \in upper}

CodeIdle == [fn |-> "none", code |-> << >>, AKSHARE_AVAILABLE |-> TRUE, main_relation |-> "none"]

InitCode ==
    /\ today = FirstDay
    /\ prov = Prov(FALSE, 0, "zero", "empty", "empty", "empty")
    /\ market_data = << >>
    /\ baseline = [a \in ListedAssets |-> None]
    /\ last = [NoLast EXCEPT !.prov = prov]
    /\ fin = CodeIdle
    /\ fout = [ret |-> NoCode, symbol |-> NoCode]
    /\ rankings = << >>
    /\ rk = RankIdle
    /\ tasks = << >>
    /\ worker = << >>

ResolveRun(code, available, main_relation) ==
    /\ fin' = [fn |-> "resolve_futures_main_contract", code |-> code,
               AKSHARE_AVAILABLE |-> available, main_relation |-> main_relation]
    /\ fout' = [ret |-> resolve_futures_main_contract(code, available, main_relation),
                symbol |-> NoCode]
    /\ UNCHANGED <<today, prov, market_data, baseline, last, rankings, rk, tasks, worker>>

NormalizeRun(code) ==
    /\ fin' = [CodeIdle EXCEPT !.fn = "normalize_stock_code", !.code = code]
    /\ fout' = [ret |-> normalize_stock_code(code),
                symbol |-> convert_to_yfinance_symbol(code)]
    /\ UNCHANGED <<today, prov, market_data, baseline, last, rankings, rk, tasks, worker>>

NextCode ==
    \/ \E code \in FuturesCodes, available \in BOOLEAN, main_relation \in MainRelations :
            ResolveRun(code, available, main_relation)
    \/ \E c \in ShareCodes : \E code \in Spellings(c) : NormalizeRun(code)

SpecCode == InitCode /\ [][NextCode]_vars

\* the inputs of the four index-future families: the cleaned symbol starts
\* with IF, IC, IM or IH
InFamily(code) == FuturesBase(code) # NoCode

\* C16 (amended): with AkShare importable, resolve_futures_main_contract
\* returns, for a code of one of the four families, the live main contract of
\* the relation lookup, or the family's continuous-contract code when the
\* lookup raises, is empty or has no usable field; for any other code it
\* returns None.  Without AkShare it returns None for every code.
C16_ResolveTerminates ==
    fin.fn = "resolve_futures_main_contract" =>
        IF ~fin.AKSHARE_AVAILABLE \/ ~InFamily(fin.code) THEN fout.ret = NoCode
        ELSE IF fin.main_relation \in {"main_contract", "contract_zh"}
        THEN fout.ret = LiveContract(FuturesBase(fin.code))
        ELSE fout.ret \in {Chars("IF") \o <<"8", "8">>, Chars("IC") \o <<"8", "8">>,
                           Chars("IM") \o <<"8", "8">>, Chars("IH") \o <<"8", "8">>}
             /\ SubSeq(fout.ret, 1, 2) = FuturesBase(fin.code)

\* a family code resolved while the relation lookup raised
C16_Witness ==
    /\ fin.fn = "resolve_futures_main_contract"
    /\ fin.code = Chars("CF.") \o Chars("IF0")
    /\ fin.AKSHARE_AVAILABLE
    /\ fin.main_relation = "raises"
    /\ fout.ret = Chars("IF") \o <<"8", "8">>

\* C16 (as stated): a code of the four families always resolves to the live
\* main contract or to the family's continuous-contract code.
C16_FamilyAlwaysResolves ==
    (fin.fn = "resolve_futures_main_contract" /\ InFamily(fin.code)) =>
        fout.ret \in {LiveContract(FuturesBase(fin.code)), FuturesBase(fin.code) \o <<"8", "8">>}

\* C18 (as stated): every spelling of a 6-digit code normalizes to the bare
\* digits, and its provider symbol is <digits>.SS when the digits start with
\* 6 and <digits>.SZ when they start with 0 or 3.
C18_NormalizationIgnoresSpelling ==
    \A c \in ShareCodes :
        (fin.fn = "normalize_stock_code" /\ fin.code \in Spellings(c)) =>
            /\ fout.ret = c.digits
            /\ fout.symbol = c.digits \o (IF Head(c.digits) = "6" THEN Chars(".SS")
                                          ELSE Chars(".SZ"))

\* the baseline an asset resolves to from the prices on the assets and the
\* store: the stored price, else the close on the baseline date, else the
\* close of the earliest record on or after it, else none
ResolvedBaseline(a, rows, base) ==
    LET on == {i \in 1..Len(rows) : rows[i].asset_id = a /\ rows[i].date = BASELINE_DATE}
        after == {i \in 1..Len(rows) : rows[i].asset_id = a /\ rows[i].date >= BASELINE_DATE}
        earliest == {i \in after : \A j \in after : rows[i].date <= rows[j].date}
    IN  IF base[a] # None THEN base[a]
        ELSE IF on # {} THEN rows[FirstIn(on)].close_price
        ELSE IF after # {} THEN rows[FirstIn(earliest)].close_price
        ELSE None

\* C17: a run of calculate_asset_rankings (services/ranking.py) measures every
\* asset that has a current price against the baseline resolved in that
\* order, leaves that baseline on the asset, and gives the change rate
\* (price - baseline) / baseline * 100 when the baseline is a price above 0.
C17_BaselineOrderAndRate ==
    [][(rk'.fn = "ranking" /\ last'.n # last.n) =>
        \A i \in 1..Len(rk'.out) :
            LET item == rk'.out[i]
                b == ResolvedBaseline(item.asset_id, market_data, baseline)
            IN  item.has_current_data =>
                    /\ baseline'[item.asset_id] = b
                    /\ item.has_baseline = (b # None /\ b # 0)
                    /\ item.has_baseline =>
                            /\ item.baseline_price = b
                            /\ item.change_rate * b <= (item.current_price - b) * 10000
                            /\ (item.current_price - b) * 10000 < (item.change_rate + 1) * b
                    /\ ~item.has_baseline => item.change_rate = None]_vars

\* baseline 100.00 on the baseline date and 110.00 the day after give 10.00 %;
\* the other asset takes the close of its earliest record after the baseline date
C17_Witness ==
    /\ rk.fn = "ranking"
    /\ rk.target_date = BASELINE_DATE + 1
    /\ \E i, j \in 1..Len(rk.out) :
        /\ rk.out[i].asset_id = 1
        /\ rk.out[i].baseline_price = 10000
        /\ rk.out[i].current_price = 11000
        /\ rk.out[i].change_rate = 1000
        /\ rk.out[j].asset_id = 2
        /\ FindRecord(market_data, 2, BASELINE_DATE) = None
        /\ market_data[Len(market_data)].date = BASELINE_DATE + 1
        /\ rk.out[j].baseline_price = 11000
        /\ baseline[2] = 11000

\* ------------------------------------------------------ two jobs at once
\* run_update_task runs in the thread pool, a calibrate call in its request:
\* each has its own session (autoflush off), reads what is committed and
\* writes at its db.commit().  worker[p] is job p: what it read (snap) and the
\* rows it will commit.
ConcJobs == {1, 2}

InitConc ==
    /\ today = MaxDay
    /\ prov \in {Prov(TRUE, 7500, "full", "ok", "ok", "ok"),
                 Prov(FALSE, 0, "zero", "ok", "empty", "empty")}
    /\ market_data \in
            {<< >>,
             <<Record(1, Row(MaxDay - 4, Close(MaxDay - 4), Vol(MaxDay - 4), None,
                             InfoFull.pe_ratio, InfoFull.pb_ratio, InfoFull.market_cap,
                             InfoFull.eps_forecast))>>}
    /\ baseline = [a \in ListedAssets |-> None]
    /\ last = [NoLast EXCEPT !.prov = prov]
    /\ fin = FetchIdle
    /\ fout = << >>
    /\ rankings = << >>
    /\ rk = RankIdle
    /\ tasks = << >>
    /\ worker = [p \in ConcJobs |->
                    [pc |-> "idle", kind |-> "update", asset |-> 0, snap |-> << >>,
                     rows |-> << >>, deleted |-> {}]]

\* the look-ups of the job, all answered from the committed store, and the
\* rows its session then holds
JobRead(p, kind, a) ==
    LET Read(rows) ==
            worker' = [worker EXCEPT ![p] = [pc |-> "commit", kind |-> kind, asset |-> a,
                                             snap |-> market_data, rows |-> rows,
                                             deleted |-> {}]]
    IN  /\ worker[p].pc = "idle"
        /\ \/ kind = "calibrate" /\ Read(custom_update_asset_data(a, today).rows)
           \/ kind = "update" /\ Read(update_asset_data(a).rows)
        /\ UNCHANGED <<today, prov, market_data, baseline, last, fin, fout, rankings, rk, tasks>>

\* db.commit(): the rows the session changed are updated, the rows it added
\* are inserted; the table has no unique constraint to refuse them
JobCommit(p) ==
    LET snap == worker[p].snap
        rows == worker[p].rows
    IN  /\ worker[p].pc = "commit"
        /\ market_data' =
                [i \in 1..Len(market_data) |->
                    IF i <= Len(snap) /\ rows[i] # snap[i] THEN rows[i] ELSE market_data[i]]
                \o SubSeq(rows, Len(snap) + 1, Len(rows))
        /\ worker' = [worker EXCEPT ![p].pc = "done"]
        /\ UNCHANGED <<today, prov, baseline, last, fin, fout, rankings, rk, tasks>>

\* run_update_task goes on to save_rankings(today, db) in the same session.
\* The DELETE of line 207 takes the committed rankings of the day; it waits
\* while another transaction holds a delete of them that is not committed.
JobDeleteRankings(p) ==
    /\ worker[p].pc = "done"
    /\ worker[p].kind = "update"
    /\ \A q \in ConcJobs \ {p} : ~(worker[q].pc = "ranking" /\ worker[q].deleted # {})
    /\ worker' = [worker EXCEPT
                    ![p].pc = "ranking",
                    ![p].deleted = {i \in 1..Len(rankings) : rankings[i].date = today}]
    /\ UNCHANGED <<today, prov, market_data, baseline, last, fin, fout, rankings, rk, tasks>>

\* lines 210-239: the rows of the two rankings are added and the transaction
\* is committed: the rows it deleted go, the rows it added are inserted
JobSaveRankings(p) ==
    LET kept == SeqFilterIdx(rankings, (1..Len(rankings)) \ worker[p].deleted, 1)
        Commit(r) ==
            /\ rankings' = [i \in 1..Len(kept) |-> rankings[kept[i]]] \o r.rankings
            /\ baseline' = r.base
    IN  /\ worker[p].pc = "ranking"
        /\ Commit(save_rankings(today, market_data, baseline, Users, << >>))
        /\ worker' = [worker EXCEPT ![p].pc = "ranked", ![p].deleted = {}]
        /\ UNCHANGED <<today, prov, market_data, last, fin, fout, rk, tasks>>

NextConc ==
    \/ \E p \in ConcJobs, kind \in {"update", "calibrate"}, a \in AssetIds : JobRead(p, kind, a)
    \/ \E p \in ConcJobs : JobCommit(p)
    \/ \E p \in ConcJobs : JobDeleteRankings(p)
    \/ \E p \in ConcJobs : JobSaveRankings(p)

SpecConc == InitConc /\ [][NextConc]_vars

\* C19 (as stated): when two update jobs, or an update job and a calibrate
\* call, run at once for the same instrument, no interleaving of their
\* look-ups and inserts leaves two records for one (instrument, date).
C19_ConcurrentJobsKeepKeysUnique ==
    \A a \in AssetIds, d \in 0..MaxDay : Cardinality(RecordsOf(market_data, a, d)) <= 1

\* C20 (as stated): when storing one record of a batch fails, the whole batch
\* is rolled back: the store is what it was before store_market_data.
C20_FailedRecordRollsBackBatch ==
    (last.op = "store" /\ \E i \in DOMAIN last.batch : last.batch[i].date = BadDate) =>
        market_data = last.pre

RECURSIVE update_all_assets_data(_, _)
\* services/market_data.py lines 2678-2688: what the loop over the assets does
\* from the idx-th asset on, a time.sleep(random.uniform(1, 3)) before every
\* update_asset_data but the first
update_all_assets_data(assets, idx) ==
    IF idx > Len(assets) THEN << >>
    ELSE (IF idx > 1 THEN <<"sleep">> ELSE << >>) \o <<"update">>
         \o update_all_assets_data(assets, idx + 1)

\* no delay before the first update, one between every two updates
DelayedBetween(events) ==
    /\ events # << >> => events[1] = "update"
    /\ \A i \in 1..(Len(events) - 1) : events[i] = "update" => events[i + 1] = "sleep"

\* C21 (as stated): in a job of either entry point a delay lies between every
\* two consecutive instrument updates and none before the first.
C21_DelayBetweenUpdates ==
    /\ DelayedBetween(update_all_assets_data(AssetSeq, 1))
    /\ \A t \in DOMAIN worker : DelayedBetween(worker[t].events)

\* the gap-filler of the last run asked no provider for day d and left the
\* record of (last.asset, d) as it was
LeftAlone(d) ==
    /\ \A k \in 1..Len(last.hist) : last.hist[k].date # d
    /\ {last.pre[i] : i \in RecordsOf(last.pre, last.asset, d)}
            = {market_data[i] : i \in RecordsOf(market_data, last.asset, d)}

ChainRank(api) ==
    CASE api = "ak_stock_zh_a_hist" -> 1
      [] api \in {"yf_fast_info", "yf_info", "yf_history", "yf_history_1d"} -> 2
      [] api = "bs_query_history" -> 3
      [] OTHER -> 4

\* C23 (as stated): a stock fetch for a domestic exchange code calls the
\* aggregator first, and calls a provider only after every earlier provider
\* of the chain (aggregator, quote provider, direct feed, stored records) has
\* been called and has given nothing.
C23_ProvidersTriedInOrder ==
    (fout # << >> /\ fin.asset_type = "stock" /\ fin.code \in DomesticEquityCodes
     /\ fin.start_date # BadDate /\ fin.end_date # BadDate) =>
        LET calls == fout[1].calls
        IN  \A j \in 1..Len(calls) :
                \A rank \in 1..(ChainRank(calls[j].api) - 1) :
                    \E i \in 1..(j - 1) : ChainRank(calls[i].api) = rank

\* ------------------------------------------------- the restarted server
\* the server restarted with asset 3 added to the table.  The store it
\* finds: the record an earlier run left for instrument 1 on the baseline
\* date + 1, with the fundamentals of ticker.info or as a bare daily bar
RestartDay == BASELINE_DATE + 2

RestartStores ==
    {<<Record(1, Row(RestartDay - 1, 7500, Vol(RestartDay - 1), None, InfoFull.pe_ratio,
                     InfoFull.pb_ratio, InfoFull.market_cap, InfoFull.eps_forecast))>>,
     <<Record(1, Row(RestartDay - 1, Close(RestartDay - 1), Vol(RestartDay - 1),
                     TurnoverRate(RestartDay - 1), None, None, None, None))>>}

InitRestart ==
    /\ today = RestartDay
    /\ prov \in ProvStates
    /\ market_data \in RestartStores
    /\ baseline = [a \in DOMAIN AllAssets |-> None]
    /\ last = [NoLast EXCEPT !.prov = prov]
    /\ fin = FetchIdle
    /\ fout = << >>
    /\ rankings = << >>
    /\ rk = RankIdle
    /\ tasks = << >>
    /\ worker = << >>

NextRestart ==
    \/ Tick
    \/ ProviderChange
    \/ \E a \in AssetIds : Update(a)

SpecRestart == InitRestart /\ [][NextRestart]_vars

\* the previous update run of the instrument wrote a placeholder for its day
PlaceholderHeld == last.op = "update" /\ last.today_is_temporary

\* C24 (as stated): after an update run wrote a placeholder for day D, the
\* next update run of the instrument that gets a provider row for D stores
\* that row's price under D, on day D and after it; and once D is a
\* historical trading day inside the look-back window the gap-filler counts
\* D among the days to fetch.
C24_PlaceholderOverwritten ==
    [][(PlaceholderHeld /\ last'.op = "update" /\ last'.n = last.n + 1
        /\ last'.asset = last.asset) =>
            LET D == last.today
                i == FindRecord(market_data', last.asset, D)
            IN  /\ (today = D /\ last'.today_fetched # << >>)
                      => market_data'[i].close_price = last'.today_fetched[1].close_price
                /\ \A k \in 1..Len(last'.hist) :
                      (last'.hist[k].date = D /\ last'.hist[k].fetched # << >>)
                      => market_data'[i].close_price = last'.hist[k].fetched[1].close_price
                /\ (today > D /\ is_trading_day(D) /\ D \in Range(ScanWindow(today - 1, 0)))
                      => \E k \in 1..Len(last'.missing_dates) : last'.missing_dates[k] = D
      ]_vars

\* C25 (as stated): after an update run whose today fetch succeeded and left
\* today's record with a non-zero PE, the reference the gap-filler derived
\* the historical ratios from is today's record: its PE and its price.
C25_TodayRecordIsReference ==
    LET i == FindRecord(market_data, last.asset, last.today)
    IN  (last.op = "update" /\ last.today_updated /\ ~last.today_is_temporary
         /\ i # None /\ Truthy(market_data[i].pe_ratio))
            => /\ last.ref.pe = market_data[i].pe_ratio
               /\ last.ref.price = market_data[i].close_price

\* the records of (last.asset, d) are not what they were before the last run
Rewritten(d) ==
    {last.pre[i] : i \in RecordsOf(last.pre, last.asset, d)}
        # {market_data[i] : i \in RecordsOf(market_data, last.asset, d)}

\* C26 (as stated): when the gap-filler of an update run inserts or fills the
\* record of a historical date D, the row it took from the fetch is dated D.
C26_FilledFromRowOfSameDate ==
    last.op = "update" =>
        \A k \in 1..Len(last.hist) :
            (last.hist[k].fetched # << >> /\ Rewritten(last.hist[k].date))
                => last.hist[k].fetched[1].date = last.hist[k].date

\* the instrument-rank entries stored for instrument a on day d
AssetRankEntries(a, d) ==
    {i \in 1..Len(rankings) :
        rankings[i].date = d /\ rankings[i].asset_id = a /\ rankings[i].rank_type = "asset_rank"}

\* C27 (as stated): once a save_rankings run for today has committed and no
\* other is under way, the rankings of today hold exactly one instrument-rank
\* entry for every instrument of an active user, overlapping runs included.
C27_RankingsFullyReplaced ==
    ((\E p \in ConcJobs : worker[p].pc = "ranked")
     /\ (\A p \in ConcJobs : worker[p].pc # "ranking"))
        => \A a \in AssetIds :
                Users[Assets[a].user_id] => Cardinality(AssetRankEntries(a, today)) = 1

\* C28 (as stated): the result of a finished update job carries the counts
\* total, success and failed, with success + failed = total = the number of
\* per-instrument entries, whether the job ran over every instrument or over
\* a list of ids.
C28_ResultCountsConsistent ==
    \A t \in DOMAIN tasks :
        (tasks[t].status = "success" /\ tasks[t].result.present) =>
            /\ tasks[t].result.counts.present
            /\ tasks[t].result.counts.success + tasks[t].result.counts.failed
                    = tasks[t].result.counts.total
            /\ tasks[t].result.counts.total = Len(tasks[t].result.results)

\* the trading days after day d and before the day of the last run
TradingDaysAfter(d) == {e \in (d + 1)..(last.today - 1) : is_trading_day(e)}

\* C29: the scan of an update run lists at most 5 dates, each a trading day
\* before today, not before the baseline date, and with fewer than 5 trading
\* days between it and today; the gap-filler fetches each listed date at most
\* once, so it makes at most 5 historical fetches.
C29_ScanBounded ==
    last.op = "update" =>
        /\ Len(last.missing_dates) <= 5
        /\ \A k \in 1..Len(last.missing_dates) :
                LET d == last.missing_dates[k]
                IN  /\ BASELINE_DATE <= d /\ d < last.today
                    /\ is_trading_day(d)
                    /\ Cardinality(TradingDaysAfter(d)) < 5
                    /\ \A j \in 1..Len(last.missing_dates) :
                            last.missing_dates[j] = d => j = k
        /\ Len(last.hist) <= 5
        /\ \A k \in 1..Len(last.hist) :
                /\ \E j \in 1..Len(last.missing_dates) :
                        last.missing_dates[j] = last.hist[k].date
                /\ \A j \in 1..Len(last.hist) :
                        last.hist[j].date = last.hist[k].date => j = k

\* a run that fetched five historical days and stopped short of a trading
\* day, not before the baseline date, that has no record
C29_Witness ==
    /\ last.op = "update"
    /\ Len(last.missing_dates) = 5
    /\ Len(last.hist) = 5
    /\ \E d \in BASELINE_DATE..(last.today - 1) :
            /\ is_trading_day(d)
            /\ Cardinality(TradingDaysAfter(d)) >= 5
            /\ FindRecord(last.pre, last.asset, d) = None
            /\ FindRecord(market_data, last.asset, d) = None

\* the records of the instruments other than a, in stored order
RecordsOfOthers(rows, a) == SelectSeq(rows, LAMBDA r : r.asset_id # a)

\* the row of a fetch was read from the stored records: the last thing the
\* fetch did was the look-up of the latest record before today, or of the cache
ReadFromStore(calls) ==
    calls # << >> /\ calls[Len(calls)].api \in {"db_latest_before_today", "db_cache"}

\* some record of instrument a, before or after the last run, has this price
OwnPrice(a, price) ==
    \/ \E i \in 1..Len(last.pre) : last.pre[i].asset_id = a /\ last.pre[i].close_price = price
    \/ \E i \in 1..Len(market_data) :
            market_data[i].asset_id = a /\ market_data[i].close_price = price

\* C30 (as stated): an update run of instrument a leaves the records of every
\* other instrument as they were, and a row it reads from the stored records,
\* as fallback or cache, is a record of a.
C30_InstrumentIsolation ==
    last.op = "update" =>
        /\ RecordsOfOthers(market_data, last.asset) = RecordsOfOthers(last.pre, last.asset)
        /\ (last.today_fetched # << >> /\ ReadFromStore(last.today_calls))
                => OwnPrice(last.asset, last.today_fetched[1].close_price)
        /\ \A k \in 1..Len(last.hist) :
                (last.hist[k].fetched # << >> /\ ReadFromStore(last.hist[k].calls))
                    => \E i \in 1..Len(last.pre) :
                            /\ last.pre[i].asset_id = last.asset
                            /\ last.pre[i].close_price = last.hist[k].fetched[1].close_price

====
